---- MODULE Spec2Model ----
(***************************************************************************)
(* Style / state / transition engine of pyGameAssets.                      *)
(*                                                                         *)
(* One StatedSprite (core.py) with its states table, its selected state,   *)
(* its current style, its optional active Transition and the style it last *)
(* rendered.  Python dictionaries are functions from key names to values;  *)
(* the places where the source shares one dictionary or one list between   *)
(* two owners are modelled by style_ref and rect_owner.                    *)
(*                                                                         *)
(* Three specifications share the definitions of the classes:              *)
(*   Spec   a program that drives one StatedSprite with construct,         *)
(*          transition and update;                                         *)
(*   SpecT  a program that builds two Transition objects itself and ticks  *)
(*          them;                                                          *)
(*   SpecE  a program that registers events on the two children of a       *)
(*          GenericCombinedSprite and handles events.                      *)
(***************************************************************************)
EXTENDS Integers, Sequences, FiniteSets, TLC

(***************************************************************************)
(* Bounds of the model.                                                    *)
(***************************************************************************)
MaxTime == 4
MaxDelta == 3
MaxCoord == 8
MaxCalls == 2
MaxTicks == 3
MaxEvents == 2

None == "None"

(***************************************************************************)
(* Python dictionaries.                                                    *)
(***************************************************************************)
EmptyDict == [k \in {} |-> 0]

Has(d, k) == k \in DOMAIN d

Truthy(d) == DOMAIN d # {}

Put(d, k, v) == [x \in (DOMAIN d) \cup {k} |-> IF x = k THEN v ELSE d[x]]

(***************************************************************************)
(* Python's round(): round half to even, on the rational n / d, d # 0.     *)
(***************************************************************************)
round(n, d) ==
    LET nn == IF d < 0 THEN -n ELSE n
        dd == IF d < 0 THEN -d ELSE d
        q == nn \div dd
        r == nn % dd
    IN  IF 2 * r < dd THEN q
        ELSE IF 2 * r > dd THEN q + 1
        ELSE IF q % 2 = 0 THEN q ELSE q + 1

min(a, b) == IF a < b THEN a ELSE b

max(a, b) == IF a > b THEN a ELSE b

(***************************************************************************)
(* easing.py.  A progress value is the rational <<numerator, denominator>> *)
(* of easing(current_time / time).                                         *)
(***************************************************************************)
EASING_FUNCTIONS ==
    { "linear",
      "cubic_in", "cubic_out", "cubic_in_out",
      "quadric_in", "quadric_out", "quadric_in_out",
      "sine_in", "sine_out", "sine_in_out",
      "exponential_in", "exponential_out", "exponential_in_out",
      "circular_in", "circular_out", "circular_in_out",
      "quartic_in", "quartic_out", "quartic_in_out",
      "quintic_in", "quintic_out", "quintic_in_out" }

linear(ct, time) == <<ct, time>>

\* Integer powers and the integer square root, for the arithmetic below.
RECURSIVE power(_, _)
power(b, e) == IF e = 0 THEN 1 ELSE b * power(b, e - 1)

RECURSIVE sqrt_between(_, _, _)
sqrt_between(lo, hi, x) ==
    IF lo >= hi THEN lo
    ELSE LET mid == (lo + hi + 1) \div 2
         IN  IF mid * mid <= x THEN sqrt_between(mid, hi, x)
             ELSE sqrt_between(lo, mid - 1, x)

\* t = ct / time with a positive denominator.
ratio(ct, time) == IF time < 0 THEN <<-ct, -time>> ELSE <<ct, time>>

\* math.cos and math.sin at the angle k * pi / 20, as a multiple of
\* 1 / Unit.  An easing function's angle t * pi / 2 is 10 * ct / time
\* twentieths of pi, a whole number for the durations that divide 10.
Unit == power(2, 20)

CosTable ==
    <<1048576, 1035666, 997255, 934288, 848316, 741455, 616338, 476044,
      324028, 164033, 0>>

cos(k) ==
    LET m == k % 40
        n == IF m > 20 THEN 40 - m ELSE m
    IN  IF n <= 10 THEN CosTable[n + 1] ELSE -CosTable[20 - n + 1]

sin(k) == cos(10 - k)

angle(ct, time) == round(10 * ct, time)

\* math.pow(2, n / d) as the rational <<numerator, denominator>>; the
\* exponent is a whole number for the durations that divide 10, and a
\* power below 2^-20 is taken as 0.
pow2(n, d) ==
    LET e == round(n, d)
    IN  IF e >= 0 THEN <<power(2, e), 1>>
        ELSE IF e >= -20 THEN <<power(2, 20 + e), Unit>>
        ELSE <<0, Unit>>

\* math.sqrt(n / (d * d)) for n >= 0 and d > 0, to 1 / 1024 of 1 / d.
sqrt(n, d) == <<sqrt_between(0, 46340, n * 1024 * 1024), d * 1024>>

SineIn(ct, time) == <<Unit - cos(angle(ct, time)), Unit>>

SineOut(ct, time) == <<sin(angle(ct, time)), Unit>>

SineInOut(ct, time) == <<Unit - cos(2 * angle(ct, time)), 2 * Unit>>

QuadIn(ct, time) == <<ct * ct, time * time>>

QuadOut(ct, time) == <<-ct * (ct - 2 * time), time * time>>

QuadInOut(ct, time) ==
    LET c == ratio(ct, time)[1]
        d == ratio(ct, time)[2]
    IN  IF 2 * c < d THEN <<2 * c * c, d * d>>
        ELSE <<d * d - (2 * c - d) * (2 * c - 3 * d), 2 * d * d>>

CubicIn(ct, time) == <<power(ct, 3), power(time, 3)>>

CubicOut(ct, time) == <<power(ct - time, 3) + power(time, 3), power(time, 3)>>

CubicInOut(ct, time) ==
    LET c == ratio(ct, time)[1]
        d == ratio(ct, time)[2]
    IN  IF 2 * c < d THEN <<4 * power(c, 3), power(d, 3)>>
        ELSE <<power(2 * c - 2 * d, 3) + 2 * power(d, 3), 2 * power(d, 3)>>

QuartIn(ct, time) == <<power(ct, 4), power(time, 4)>>

QuartOut(ct, time) == <<power(time, 4) - power(ct - time, 4), power(time, 4)>>

QuartInOut(ct, time) ==
    LET c == ratio(ct, time)[1]
        d == ratio(ct, time)[2]
    IN  IF 2 * c < d THEN <<8 * power(c, 4), power(d, 4)>>
        ELSE <<2 * power(d, 4) - power(2 * c - 2 * d, 4), 2 * power(d, 4)>>

QuintIn(ct, time) == <<power(ct, 5), power(time, 5)>>

QuintOut(ct, time) == <<power(ct - time, 5) + power(time, 5), power(time, 5)>>

QuintInOut(ct, time) ==
    LET c == ratio(ct, time)[1]
        d == ratio(ct, time)[2]
    IN  IF 2 * c < d THEN <<16 * power(c, 5), power(d, 5)>>
        ELSE <<power(2 * c - 2 * d, 5) + 2 * power(d, 5), 2 * power(d, 5)>>

ExpoIn(ct, time) == pow2(10 * (ct - time), time)

ExpoOut(ct, time) ==
    LET p == pow2(-10 * ct, time) IN <<p[2] - p[1], p[2]>>

ExpoInOut(ct, time) ==
    LET c == ratio(ct, time)[1]
        d == ratio(ct, time)[2]
        p == IF 2 * c < d THEN pow2(10 * (2 * c - d), d)
             ELSE pow2(-10 * (2 * c - d), d)
    IN  IF 2 * c < d THEN <<p[1], 2 * p[2]>>
        ELSE <<-p[1] - p[2], p[2]>>

\* The number under the square root of each circular function, times
\* time * time: math.sqrt raises ValueError when it is negative.
radicand(easing, ct, time) ==
    LET c == ratio(ct, time)[1]
        d == ratio(ct, time)[2]
    IN  CASE easing = "circular_in" -> d * d - c * c
          [] easing = "circular_out" -> d * d - (c - d) * (c - d)
          [] easing = "circular_in_out" ->
                IF 2 * c < d THEN d * d - 4 * c * c
                ELSE d * d - (2 * c - 2 * d) * (2 * c - 2 * d)
          [] OTHER -> 0

CircIn(ct, time) ==
    LET s == sqrt(radicand("circular_in", ct, time), ratio(ct, time)[2])
    IN  <<s[2] - s[1], s[2]>>

CircOut(ct, time) ==
    sqrt(radicand("circular_out", ct, time), ratio(ct, time)[2])

CircInOut(ct, time) ==
    LET s == sqrt(radicand("circular_in_out", ct, time), ratio(ct, time)[2])
    IN  IF 2 * ratio(ct, time)[1] < ratio(ct, time)[2]
        THEN <<s[2] - s[1], 2 * s[2]>>
        ELSE <<s[1] + s[2], 2 * s[2]>>

\* The call self.easing_func(self.current_time / self.time) raises
\* ValueError: math domain error.
domain_error(easing, ct, time) == radicand(easing, ct, time) < 0

\* EASING_FUNCTIONS[easing](ct / time)
easing_func(easing, ct, time) ==
    CASE easing = "linear" -> linear(ct, time)
      [] easing = "cubic_in" -> CubicIn(ct, time)
      [] easing = "cubic_out" -> CubicOut(ct, time)
      [] easing = "cubic_in_out" -> CubicInOut(ct, time)
      [] easing = "quadric_in" -> QuadIn(ct, time)
      [] easing = "quadric_out" -> QuadOut(ct, time)
      [] easing = "quadric_in_out" -> QuadInOut(ct, time)
      [] easing = "sine_in" -> SineIn(ct, time)
      [] easing = "sine_out" -> SineOut(ct, time)
      [] easing = "sine_in_out" -> SineInOut(ct, time)
      [] easing = "exponential_in" -> ExpoIn(ct, time)
      [] easing = "exponential_out" -> ExpoOut(ct, time)
      [] easing = "exponential_in_out" -> ExpoInOut(ct, time)
      [] easing = "circular_in" -> CircIn(ct, time)
      [] easing = "circular_out" -> CircOut(ct, time)
      [] easing = "circular_in_out" -> CircInOut(ct, time)
      [] easing = "quartic_in" -> QuartIn(ct, time)
      [] easing = "quartic_out" -> QuartOut(ct, time)
      [] easing = "quartic_in_out" -> QuartInOut(ct, time)
      [] easing = "quintic_in" -> QuintIn(ct, time)
      [] easing = "quintic_out" -> QuintOut(ct, time)
      [] easing = "quintic_in_out" -> QuintInOut(ct, time)

known_easing_any(easing) == TRUE

\* EASING_FUNCTIONS.get(easing) is not None
known_easing(easing) == easing \in EASING_FUNCTIONS

(***************************************************************************)
(* Style keys (core.py, class Style).                                      *)
(***************************************************************************)
ColorKeys == {"bg", "fg", "border", "text_color"}

RadiusKeys == {"border_radius", "fg_radius"}

InterpolatedKeys == ColorKeys \cup RadiusKeys \cup {"rect"}

\* A rect value of a style: the four numbers and, per field, whether the
\* field is 'auto' (the number of an 'auto' field is 0).
NoAuto == <<FALSE, FALSE, FALSE, FALSE>>

NumRect(r) == [val |-> r, auto |-> NoAuto]

HasAuto(rv) == \E i \in 1..4 : rv.auto[i]

\* A color that is a name or an index (a str or an int in the source) is a
\* sequence of one element; an RGB or RGBA color has three or four.
symbolic(color) == Len(color) = 1

to_rgba(color) ==
    IF symbolic(color) THEN color
    ELSE IF Len(color) < 4
    THEN color \o [i \in 1..(4 - Len(color)) |-> 255]
    ELSE color

to_rgba_get(style, key) ==
    IF Has(style, key) THEN to_rgba(style[key]) ELSE <<0, 0, 0, 0>>

(***************************************************************************)
(* class Transition (core.py).  A Transition is the record of its fields.  *)
(* style_keys is the *style_keys argument tuple: a sequence of iterables.  *)
(* The result is [raised, tr]: the exception raised ("" for none) and the  *)
(* object built, <<>> or <<the Transition>>.                               *)
(*                                                                         *)
(* self.style = self.style1.copy() is a shallow copy: the lists that       *)
(* __init__ stored in style1 for the selected color keys, and the rect     *)
(* list of the start style, are the same objects in style and in style1,   *)
(* so tick's writes to self.style[key][i] are writes to style1[key][i].    *)
(***************************************************************************)
bad_color_end(style1, style2, key) == symbolic(style2[key])

\* type(s1_val) in (str, int) or type(s2_val) in (str, int), for a key of
\* style2.
bad_color(style1, style2, key) ==
    \/ Has(style1, key) /\ symbolic(style1[key])
    \/ symbolic(style2[key])

\* A radius value of a style is the record of its numbers, val, and of
\* whether it is one int (then val has that one number) or a tuple.
Radius(val) == [val |-> val, int |-> FALSE]

IntRadius(r) == [val |-> <<r>>, int |-> TRUE]

\* radius_kwds(val, only_tuple): the four-tuple of an int; with only_tuple
\* the tuple as it is given, else the values of the four corner keywords,
\* a tuple shorter than 4 filled with -1.
radius_kwds(val, only_tuple) ==
    LET t == IF val.int THEN <<val.val[1], val.val[1], val.val[1], val.val[1]>>
             ELSE val.val
    IN  IF only_tuple THEN t
        ELSE IF Len(t) < 4
        THEN t \o [i \in 1..(4 - Len(t)) |-> -1]
        ELSE SubSeq(t, 1, 4)

\* list(radius_kwds(style.get(key), True)): radius_kwds(None) is the empty
\* dictionary, whose list is empty.
radius_kwds_get(style, key) ==
    Radius(IF Has(style, key) THEN radius_kwds(style[key], TRUE) ELSE <<>>)

Transition__init__(time, style1, style2, style_keys, all, easing) ==
    IF ~known_easing(easing)
    THEN [raised |-> "KeyError", tr |-> <<>>]
    ELSE IF Len(style_keys) > 1
    THEN [raised |-> "TypeError", tr |-> <<>>]
    ELSE
    LET keys == IF all THEN (DOMAIN style1) \cup (DOMAIN style2)
                ELSE IF style_keys = <<>> THEN DOMAIN style2
                ELSE style_keys[1]
        kept == {k \in keys : Has(style2, k)}
        colors == kept \cap ColorKeys
        radii == kept \cap RadiusKeys
    IN  IF \E k \in colors : bad_color(style1, style2, k)
        THEN [raised |-> "IncorrectColorError", tr |-> <<>>]
        ELSE
    LET s1 == [k \in (DOMAIN style1) \cup colors \cup radii |->
                  IF k \in colors THEN to_rgba_get(style1, k)
                  ELSE IF k \in radii THEN radius_kwds_get(style1, k)
                  ELSE style1[k]]
        s2 == [k \in DOMAIN style2 |->
                  IF k \in colors THEN to_rgba(style2[k])
                  ELSE IF k \in radii THEN radius_kwds_get(style2, k)
                  ELSE style2[k]]
    IN  [raised |-> "",
         tr |-> << [finished |-> FALSE, time |-> time, current_time |-> 0,
                    easing |-> easing, style_keys |-> kept,
                    style1 |-> s1, style2 |-> s2, style |-> s1] >>]

tick_value_unclamped(key, s1_val, s2_val, p) ==
    LET comp(a, b) == round(a * p[2] + (b - a) * p[1], p[2])
    IN  IF key \in ColorKeys
        THEN [i \in 1..4 |-> comp(s1_val[i], s2_val[i])]
        ELSE IF key \in RadiusKeys
        THEN Radius([i \in 1..Len(s1_val.val) |->
                        IF i <= min(4, Len(s2_val.val))
                        THEN comp(s1_val.val[i], s2_val.val[i])
                        ELSE s1_val.val[i]])
        ELSE [val |-> [i \in 1..4 |-> comp(s1_val.val[i], s2_val.val[i])],
              auto |-> s1_val.auto]

\* The four components of one key after a tick at progress p.  The loop
\* over range(4) writes the components of a radius list one by one and
\* stops at the first index that one of the two lists does not have.
tick_value(key, s1_val, s2_val, p) ==
    LET comp(a, b) == round(a * p[2] + (b - a) * p[1], p[2])
    IN  IF key \in ColorKeys
        THEN [i \in 1..4 |-> min(max(comp(s1_val[i], s2_val[i]), 0), 255)]
        ELSE IF key \in RadiusKeys
        THEN Radius([i \in 1..Len(s1_val.val) |->
                        IF i <= min(4, Len(s2_val.val))
                        THEN comp(s1_val.val[i], s2_val.val[i])
                        ELSE s1_val.val[i]])
        ELSE [val |-> [i \in 1..4 |-> comp(s1_val.val[i], s2_val.val[i])],
              auto |-> s1_val.auto]

\* The style after the loop of tick has handled the keys of done.
tick_style(tr, done, p) ==
    [k \in DOMAIN tr.style |->
        IF k \in done \cap InterpolatedKeys
        THEN tick_value(k, tr.style1[k], tr.style2[k], p)
        ELSE tr.style[k]]

\* The selected radius keys with a list of less than 4 components.
short_keys(tr) ==
    {k \in tr.style_keys \cap RadiusKeys \cap DOMAIN tr.style1 :
        Len(tr.style1[k].val) < 4 \/ Len(tr.style2[k].val) < 4}

\* The sets of keys the loop of tick may have written when it stops: all of
\* them, or some of them and then either a selected key that style1 does
\* not have, or one short radius key, written up to its missing index.
DoneSets(t) ==
    LET missing == t.style_keys \ DOMAIN t.style1
        whole == (t.style_keys \cap DOMAIN t.style1) \ short_keys(t)
    IN  IF missing = {} /\ short_keys(t) = {} THEN {t.style_keys}
        ELSE {d \cup b : d \in SUBSET whole,
                         b \in {{k} : k \in short_keys(t)}
                               \cup (IF missing = {} THEN {} ELSE {{}})}

\* Transition.tick(delta_time).  The loop raises KeyError at the first
\* selected key that style1 does not have and IndexError at the first
\* radius key with a short list; done is the set of keys the loop wrote
\* before it raised (the iteration order of a set is not fixed).
tick(tr, delta_time, done) ==
    LET ct == tr.current_time + delta_time
        missing == tr.style_keys \ DOMAIN tr.style1
    IN  IF tr.time = 0
        THEN [raised |-> "ZeroDivisionError",
              tr |-> [tr EXCEPT !.current_time = ct]]
        ELSE IF tr.easing \notin EASING_FUNCTIONS
        THEN [raised |-> "TypeError",
              tr |-> [tr EXCEPT !.current_time = ct]]
        ELSE IF domain_error(tr.easing, ct, tr.time)
        THEN [raised |-> "ValueError",
              tr |-> [tr EXCEPT !.current_time = ct]]
        ELSE IF \E k \in tr.style_keys \cap ColorKeys :
                   symbolic(tr.style1[k]) \/ symbolic(tr.style2[k])
        THEN [raised |-> "TypeError",
              tr |-> [tr EXCEPT !.current_time = ct]]
        ELSE IF missing # {} \/ short_keys(tr) # {}
        THEN LET st == tick_style(tr, done, easing_func(tr.easing, ct, tr.time))
             IN  [raised |-> IF done \cap short_keys(tr) # {}
                             THEN "IndexError" ELSE "KeyError",
                  tr |-> [tr EXCEPT !.current_time = ct,
                                    !.style = st, !.style1 = st]]
        ELSE LET st == tick_style(tr, tr.style_keys,
                                  easing_func(tr.easing, ct, tr.time))
             IN  [raised |-> "",
                  tr |-> [tr EXCEPT !.current_time = ct,
                                    !.style = st, !.style1 = st,
                                    !.finished = (@ \/ ct >= tr.time)]]

(***************************************************************************)
(* class StatedSprite (core.py).                                           *)
(*                                                                         *)
(*   rect            self.rect                                             *)
(*   states          self.states, the dictionary of each registered state  *)
(*   selected_state  self.selected_state                                   *)
(*   style_ref       the dictionary self.style refers to: "own" (a         *)
(*                   dictionary no one else holds, own_style), "tr" (the   *)
(*                   style dictionary of self._transition) or the name of  *)
(*                   the state whose dictionary it is                      *)
(*   own_style       the dictionary of style_ref = "own"                   *)
(*   _transition     self._transition: <<>> for None, else <<Transition>>  *)
(*   rect_owner      the dictionary ("own" or a state name) whose 'rect'   *)
(*                   is the list object that is also the 'rect' of         *)
(*                   _transition.style1 and _transition.style, or None     *)
(*   image           the style self.image was last drawn from, i.e. the    *)
(*                   keywords of the last _construct call                  *)
(*   last            the last call made to the sprite and its outcome      *)
(*   started         the arguments of the transition call that built       *)
(*                   _transition, and whether only update calls followed   *)
(*   calls           the number of construct and transition calls so far   *)
(*                   that got past their checks of the state name          *)
(*   dispatch        <<>>, or while the combined sprite that holds the     *)
(*                   sprite runs handle_event on it: the rect that         *)
(*                   handle_event saved, and whether the function of the   *)
(*                   sprite's event has made its call                      *)
(***************************************************************************)
VARIABLES rect, states, selected_state, style_ref, own_style, _transition,
          rect_owner, image, last, started, calls, dispatch

vars == <<rect, states, selected_state, style_ref, own_style, _transition,
          rect_owner, image, last, started, calls, dispatch>>

(***************************************************************************)
(* Two Transition objects a and b built by the same constructor call,      *)
(* Transition(time, style1, style2, *style_keys, _all=all, easing=easing), *)
(* by a program that uses the class without a sprite.                      *)
(*                                                                         *)
(*   params  the arguments of the call; shared tells whether a and b got   *)
(*           the same style1 dictionary or two equal ones                  *)
(*   trs     the two objects: <<>> before the call and when it raised      *)
(*   outs    for each object, what each of its tick calls returned         *)
(*   dts     the delta_time values fed so far to the object that is ahead  *)
(*   tlast   the last call made and its outcome                            *)
(***************************************************************************)
VARIABLES params, trs, outs, dts, tlast

tvars == <<params, trs, outs, dts, tlast>>

(***************************************************************************)
(* A GenericCombinedSprite (core.py) with two Sprite children, and the     *)
(* events of the children.                                                 *)
(*                                                                         *)
(*   Events       for each child its Events dictionary, in insertion       *)
(*                order: the name, the check and the function of each      *)
(*                wrapper                                                  *)
(*   sprite_rect  for each child its rect                                  *)
(*   log          the calls of the children's functions made by the last   *)
(*                handle_event call, in order: the sprite, the event       *)
(*                name, the argument passed and the sprite's rect then     *)
(*   elast        the last call made and its outcome                       *)
(***************************************************************************)
VARIABLES Events, sprite_rect, log, elast

evars == <<Events, sprite_rect, log, elast>>

(***************************************************************************)
(* A GenericCombinedStatedSprite (core.py) with two StatedSprite children. *)
(*                                                                         *)
(*   combined  the container: the keyword names its constructor was given  *)
(*             (sprites), the exception the constructor raised, the keys   *)
(*             of the dictionary in insertion order (items), and its       *)
(*             attributes states, selected_state and style                 *)
(*   children  for each key its sprite: selected_state, style and          *)
(*             _transition                                                 *)
(*   visits    the calls the last call of the container made to its        *)
(*             children, in order: the child, the method, the argument     *)
(*   clast     the last call made and its outcome                          *)
(***************************************************************************)
VARIABLES combined, children, visits, clast

cvars == <<combined, children, visits, clast>>

(***************************************************************************)
(* One easing function, called by the program itself and by a Transition.  *)
(*                                                                         *)
(*   easing_name  the name of the function in EASING_FUNCTIONS             *)
(*   ftr     the Transition built with it: <<>> or <<the Transition>>      *)
(*   eased   the last call of the function by the program: the argument    *)
(*           ct / time, the exception raised and the value returned        *)
(*   flast   the last call made and its outcome                            *)
(***************************************************************************)
VARIABLES easing_name, ftr, eased, flast

fvars == <<easing_name, ftr, eased, flast>>

VARIABLES value, max_val, _old_value, fg_rect, plast

pvars == <<value, max_val, _old_value, fg_rect, plast>>

VARIABLES frames, frame_index, speed, frame_since_last, loop_frames,
          functions, end_funcs, called, alast

avars == <<frames, frame_index, speed, frame_since_last, loop_frames,
           functions, end_funcs, called, alast>>

(***************************************************************************)
(* A Slider (ui/elements.py).                                              *)
(*                                                                         *)
(*   slider        the slider's rect                                       *)
(*   pointer_rect  the rect of the pointer, relative to the slider         *)
(*   _value        the value, a rational <<numerator, denominator>>        *)
(*   _clicked      whether the pointer is being dragged                    *)
(*   handlers      for each event of the pointer, the number of parameters *)
(*                 of the function registered for it                       *)
(*   callback      "class" while callback is the one the class declares,   *)
(*                 "instance" once the program has assigned its own        *)
(*   slast         the last call made, the exception it raised and whether *)
(*                 it set the pointer's position                           *)
(***************************************************************************)
VARIABLES slider, pointer_rect, _value, _clicked, handlers, callback, slast

svars == <<slider, pointer_rect, _value, _clicked, handlers, callback, slast>>

\* The registered states, and a name that is not registered.
StateNames == {"default", "hover", "empty"}

NameInputs == StateNames \cup {"ghost"}

DefaultStyle == [bg |-> <<0, 251, 0>>, text |-> "a"]

HoverStyle ==
    [bg |-> <<4, 255, 0, 255>>, text |-> "b",
     rect |-> [val |-> <<0, 4, 0, 0>>, auto |-> <<TRUE, FALSE, TRUE, TRUE>>]]

\* A style given to construct or transition without registering it.
AdHocStyle == [bg |-> <<2, 253, 0, 255>>]

\* The keywords of construct(rect=...): the sprite is moved.
MoveStyle == [rect |-> [val |-> <<3, 2, 6, 6>>, auto |-> NoAuto]]

Times == {MaxTime}

DeltaTimes == 1..MaxDelta

EasingInputs == {"linear", "quadric_in", "bounce"}

KeyInputs == {{}, {"bg"}, {"bg", "text", "rect"}}

\* The arguments of a transition call: _all makes style_keys irrelevant, so
\* it is tried with one value of style_keys.
TransitionArgs ==
    { a \in [time : Times, style_keys : KeyInputs, all : BOOLEAN,
             easing : EasingInputs] : a.all => a.style_keys = {} }

\* The contents of the dictionary self.style refers to.
style ==
    IF style_ref = "own" THEN own_style
    ELSE IF style_ref = "tr" THEN _transition[1].style
    ELSE states[style_ref]

Call(op, target, force, easing, dt, raised, created) ==
    [op |-> op, target |-> target, force |-> force, easing |-> easing,
     dt |-> dt, raised |-> raised, created |-> created]

\* StatedSprite.__init__(rect, **DefaultStyle), then the registration of
\* the other states in self.states.
Init ==
    /\ rect = <<1, 2, 6, 6>>
    /\ states = [n \in StateNames |->
                    IF n = "default" THEN DefaultStyle
                    ELSE IF n = "hover" THEN HoverStyle
                    ELSE EmptyDict]
    /\ selected_state = "default"
    /\ style_ref = "own"
    /\ own_style = DefaultStyle
    /\ _transition = <<>>
    /\ rect_owner = None
    /\ image = DefaultStyle
    /\ last = Call("init", "", FALSE, "", 0, "", FALSE)
    /\ started = <<>>
    /\ calls = 0
    /\ dispatch = <<>>

resolve_auto_keeps(rv, cur) == rv

\* The 'auto' fields of a style's rect replaced by the fields of cur.
resolve_auto(rv, cur) ==
    [val |-> [i \in 1..4 |-> IF rv.auto[i] THEN cur[i] ELSE rv.val[i]],
     auto |-> NoAuto]

\* StatedSprite._construct(**st): [raised, rect], the exception raised and
\* the new self.rect.  (The new self.image is drawn from st.)
_construct(st, cur) ==
    IF ~Has(st, "rect") THEN [raised |-> "", rect |-> cur]
    ELSE IF (IF Has(st, "check_rect_auto") THEN st["check_rect_auto"] ELSE TRUE)
    THEN [raised |-> "", rect |-> resolve_auto(st["rect"], cur).val]
    ELSE IF HasAuto(st["rect"]) THEN [raised |-> "TypeError", rect |-> cur]
    ELSE [raised |-> "", rect |-> st["rect"].val]

\* own_style and rect_owner once self.style refers to ref: a dictionary
\* that nothing refers to any more is forgotten.
own_after(ref, own) == IF ref = "own" THEN own ELSE EmptyDict

owner_after(ref, owner) == IF ref # "own" /\ owner = "own" THEN None ELSE owner

\* started once a construct call has come between the updates.
disturbed(st) ==
    IF st = <<>> THEN st ELSE << [st[1] EXCEPT !.only_updates = FALSE] >>

\* self.states.get(state) is true: the name is a key and its style is not
\* empty.
valid_state(state) == state \in DOMAIN states /\ Truthy(states[state])

unknown_state_late(op, state, force, easing) ==
    /\ selected_state' = state
    /\ last' = Call(op, state, force, easing, 0, "KeyError", FALSE)
    /\ UNCHANGED <<rect, states, style_ref, own_style,
                   _transition, rect_owner, image, started, calls>>

\* raise KeyError(f'{state} is not a valid state. ...')
unknown_state(op, state, force, easing) ==
    /\ last' = Call(op, state, force, easing, 0, "KeyError", FALSE)
    /\ UNCHANGED <<rect, states, selected_state, style_ref, own_style,
                   _transition, rect_owner, image, started, calls>>

change_style_selected_always(kind, state, change_selected) ==
    IF kind = "str" THEN state ELSE None

\* self.selected_state after change_style(state, change_selected); kind is
\* the type of state: "str", "None" or "dict".
change_style_selected(kind, state, change_selected) ==
    IF kind = "str" THEN state
    ELSE IF change_selected THEN None
    ELSE selected_state

\* StatedSprite.construct(state) with a name: change_style(state), then
\* _construct(**self.style).
Construct(state) ==
    IF ~valid_state(state)
    THEN unknown_state("construct", state, FALSE, "")
    ELSE LET c == _construct(states[state], rect)
         IN  /\ calls < MaxCalls
             /\ calls' = calls + 1
             /\ selected_state' = change_style_selected("str", state, TRUE)
             /\ style_ref' = state
             /\ own_style' = own_after(state, own_style)
             /\ rect_owner' = owner_after(state, rect_owner)
             /\ rect' = c.rect
             /\ image' = IF c.raised = "" THEN states[state] ELSE image
             /\ last' = Call("construct", state, FALSE, "", 0, c.raised, FALSE)
             /\ started' = disturbed(started)
             /\ UNCHANGED <<states, _transition>>

\* StatedSprite.construct(**st) with the keys of a style (or nothing) and
\* no name: change_style(None), then _construct(**st).
ConstructStyle(st) ==
    LET c == _construct(st, rect)
    IN  /\ calls < MaxCalls
        /\ calls' = calls + 1
        /\ selected_state' = change_style_selected("None", None, TRUE)
        /\ style_ref' = "own"
        /\ own_style' = EmptyDict
        /\ rect_owner' = IF rect_owner = "own" THEN None ELSE rect_owner
        /\ rect' = c.rect
        /\ image' = IF c.raised = "" THEN st ELSE image
        /\ last' = Call("construct",
                        IF st = EmptyDict THEN "<nothing>"
                        ELSE IF st = MoveStyle THEN "<rect>" ELSE "<style>",
                        FALSE, "", 0, c.raised, FALSE)
        /\ started' = disturbed(started)
        /\ UNCHANGED <<states, _transition>>

\* Lines 805-814 of transition: the target's 'rect' is replaced, in the
\* target dictionary itself, by a list with the 'auto' fields resolved.
resolve_target(_state, cur) ==
    IF ~Has(_state, "rect") THEN _state
    ELSE LET check == IF Has(_state, "check_rect_auto")
                      THEN _state["check_rect_auto"] ELSE TRUE
             r == IF check THEN resolve_auto(_state["rect"], cur)
                  ELSE _state["rect"]
         IN  Put(Put(_state, "rect", r), "check_rect_auto", FALSE)

\* Lines 816-820 of transition, common to a named and an unnamed target:
\* self.style['rect'] = [*self.rect] is a write into whichever dictionary
\* self.style refers to; then the old Transition is dropped and the new one
\* built from self.style and _state.  states1 is the states table and
\* target the target's name (or None, with its dictionary in adhoc).
start_transition(states1, target, adhoc, time, style_keys, all, easing, force) ==
    LET cur == NumRect(rect)
        ref1 == IF style_ref = "tr" THEN "own" ELSE style_ref
        own1 == IF style_ref = "own" THEN Put(own_style, "rect", cur)
                ELSE IF style_ref = "tr" THEN Put(_transition[1].style, "rect", cur)
                ELSE EmptyDict
        states2 == IF style_ref \in DOMAIN states1
                   THEN [states1 EXCEPT ![style_ref] = Put(@, "rect", cur)]
                   ELSE states1
        x == IF ref1 = "own" THEN own1 ELSE states2[ref1]
        _state == IF target = None THEN adhoc ELSE states2[target]
        r == Transition__init__(time, x, _state, <<style_keys>>, all, easing)
        name == IF target = None THEN "<style>" ELSE target
    IN  /\ calls < MaxCalls
        /\ calls' = calls + 1
        /\ selected_state' = target
        /\ states' = states2
        /\ style_ref' = ref1
        /\ own_style' = own1
        /\ _transition' = r.tr
        /\ rect_owner' = IF r.raised = "" THEN ref1 ELSE None
        /\ last' = Call("transition", name, force, easing, 0, r.raised,
                        r.raised = "")
        /\ started' = IF r.raised # "" THEN <<>>
                      ELSE << [target |-> name, style_keys |-> style_keys,
                               all |-> all, only_updates |-> TRUE] >>
        /\ UNCHANGED <<rect, image>>

same_state_never(state, force) == FALSE

\* Lines 789-790 of transition: the call returns at once.
same_state(state, force) == ~force /\ state = selected_state

\* StatedSprite.transition(state, time, *style_keys, _all, easing,
\* ignore_scheck) with a name.
TransitionTo(state, time, style_keys, all, easing, force) ==
    IF same_state(state, force)
    THEN /\ last' = Call("transition", state, force, easing, 0, "", FALSE)
         /\ UNCHANGED <<rect, states, selected_state, style_ref, own_style,
                        _transition, rect_owner, image, started, calls>>
    ELSE IF ~valid_state(state)
    THEN unknown_state("transition", state, force, easing)
    ELSE start_transition(
             [states EXCEPT ![state] = resolve_target(@, rect)],
             state, EmptyDict, time, style_keys, all, easing, force)

\* StatedSprite.transition(st, ...) with a style that is not registered.
TransitionToStyle(st, time, style_keys, all, easing) ==
    start_transition(states, None, resolve_target(st, rect),
                     time, style_keys, all, easing, FALSE)

\* A tick's write to the list self.style['rect'] is also seen in the
\* dictionary rect_owner, which holds the same list.
write_through(d, owner, name, t) ==
    IF owner = name /\ Has(t.style, "rect") /\ Has(d, "rect")
    THEN Put(d, "rect", t.style["rect"])
    ELSE d

InBounds(r) == \A i \in 1..4 : r[i] >= -MaxCoord /\ r[i] <= MaxCoord

\* StatedSprite.update(delta_time).  Sprite.update dispatches an empty
\* event to the callbacks of self.Events, of which this sprite has none.
Update(delta_time) ==
    IF _transition = <<>>
    THEN /\ last' = Call("update", "", FALSE, "", delta_time, "", FALSE)
         /\ UNCHANGED <<rect, states, selected_state, style_ref, own_style,
                        _transition, rect_owner, image, started, calls>>
    ELSE IF _transition[1].finished
    THEN LET c == _construct(style, rect)
         IN  /\ _transition' = <<>>
             /\ style_ref' = IF style_ref = "tr" THEN "own" ELSE style_ref
             /\ own_style' = IF style_ref = "tr" THEN _transition[1].style
                             ELSE own_style
             /\ rect_owner' = None
             /\ rect' = c.rect
             /\ image' = IF c.raised = "" THEN style ELSE image
             /\ last' = Call("update", "", FALSE, "", delta_time, c.raised, FALSE)
             /\ started' = <<>>
             /\ UNCHANGED <<states, selected_state, calls>>
    ELSE IF _transition[1].current_time >= _transition[1].time
    THEN \* Only ticks that raised lead here, and the next one raises as
         \* they did: past the duration the growth of current_time and of
         \* the values the tick writes before it raises is not followed.
         /\ \E done \in DoneSets(_transition[1]) :
               last' = Call("update", "", FALSE, "", delta_time,
                            tick(_transition[1], delta_time, done).raised,
                            FALSE)
         /\ UNCHANGED <<rect, states, selected_state, style_ref, own_style,
                        _transition, rect_owner, image, started, calls>>
    ELSE /\ \E done \in DoneSets(_transition[1]) :
              LET t == tick(_transition[1], delta_time, done)
                  c == _construct(t.tr.style, rect)
              IN  /\ InBounds(c.rect)
                  /\ _transition' = <<t.tr>>
                  /\ states' = [n \in DOMAIN states |->
                                   write_through(states[n], rect_owner, n, t.tr)]
                  /\ UNCHANGED <<started, calls>>
                  /\ IF t.raised # ""
                     THEN /\ own_style' = write_through(own_style, rect_owner,
                                                        "own", t.tr)
                          /\ last' = Call("update", "", FALSE, "", delta_time,
                                          t.raised, FALSE)
                          /\ UNCHANGED <<rect, selected_state, style_ref,
                                         rect_owner, image>>
                     ELSE /\ selected_state' =
                                 change_style_selected("dict", None, FALSE)
                          /\ style_ref' = "tr"
                          /\ own_style' = EmptyDict
                          /\ rect_owner' = owner_after("tr", rect_owner)
                          /\ rect' = c.rect
                          /\ image' = IF c.raised = "" THEN t.tr.style ELSE image
                          /\ last' = Call("update", "", FALSE, "", delta_time,
                                          c.raised, FALSE)

\* A call that returns or raises before it reads its other arguments is
\* tried with one value of them.
ArgsRead(state, force) ==
    IF same_state(state, force) \/ ~valid_state(state)
    THEN {[time |-> MaxTime, style_keys |-> {}, all |-> FALSE,
           easing |-> "linear"]}
    ELSE TransitionArgs

DeltaTimesRead ==
    IF _transition = <<>> \/ _transition[1].finished THEN {MaxDelta}
    ELSE DeltaTimes

\* The program of this specification builds no Transition of its own.
NoTransitions ==
    /\ params = [time |-> MaxTime, style1 |-> EmptyDict, style2 |-> EmptyDict,
                 style_keys |-> <<>>, all |-> FALSE, easing |-> "linear",
                 shared |-> FALSE]
    /\ trs = [w \in {"a", "b"} |-> <<>>]
    /\ outs = [w \in {"a", "b"} |-> <<>>]
    /\ dts = <<>>
    /\ tlast = [op |-> "init", who |-> "", dt |-> 0, raised |-> ""]

\* The children of the combined sprite in the order of its dictionary, its
\* rect, and the rects of the children, which are relative to it.
Sprites == <<"a", "b">>

CombinedRect == <<3, 3, 5, 5>>

ChildRects == [a |-> <<2, 3, 2, 2>>, b |-> <<0, 0, 2, 2>>]

\* No event is registered yet and no event was handled.
NoEvents ==
    /\ Events = [c \in {"a", "b"} |-> <<>>]
    /\ sprite_rect = ChildRects
    /\ log = <<>>
    /\ elast = [op |-> "init", target |-> "", raised |-> "",
                event |-> [type |-> "NOEVENT", pos |-> <<0, 0>>]]

\* No combined stated sprite is built.
NoCombined ==
    /\ combined = [raised |-> "", sprites |-> <<>>, items |-> <<>>,
                   states |-> EmptyDict, selected_state |-> None,
                   style |-> EmptyDict]
    /\ children = EmptyDict
    /\ visits = <<>>
    /\ clast = [op |-> "init", kind |-> "", state |-> "", arg |-> 0, raised |-> ""]

\* Nothing was evaluated yet.
NoValue == [ct |-> -1, time |-> 1, raised |-> "", value |-> <<0, 1>>]

\* No easing function is called by the program.
NoEasing ==
    /\ easing_name = "linear"
    /\ ftr = <<>>
    /\ eased = NoValue
    /\ flast = [op |-> "init", dt |-> 0, raised |-> ""]

\* No progress bar is built.
NoProgressBar ==
    /\ value = 0
    /\ max_val = 1
    /\ _old_value = 0
    /\ fg_rect = <<0, 0, 0, 0>>
    /\ plast = [op |-> "init", raised |-> ""]

\* No animation is built.
NoAnimation ==
    /\ frames = 0
    /\ frame_index = 0
    /\ speed = 0
    /\ frame_since_last = 0
    /\ loop_frames = <<0, -1>>
    /\ functions = {}
    /\ end_funcs = 0
    /\ called = <<>>
    /\ alast = [op |-> "init", step |-> 0, raised |-> ""]

\* No slider is built.
NoSlider ==
    /\ slider = <<0, 0, 0, 0>>
    /\ pointer_rect = <<0, 0, 0, 0>>
    /\ _value = <<0, 1>>
    /\ _clicked = FALSE
    /\ handlers = <<>>
    /\ callback = "class"
    /\ slast = [op |-> "init", raised |-> "", moved |-> FALSE]

\* One update call of the loop that draws the frames.
Updates ==
    /\ \E delta_time \in DeltaTimesRead : Update(delta_time)
    /\ UNCHANGED <<dispatch, tvars, evars, cvars, fvars, pvars, avars, svars>>

Next ==
    \/ /\ \E state \in NameInputs : Construct(state)
       /\ UNCHANGED <<dispatch, tvars, evars, cvars, fvars, pvars, avars, svars>>
    \/ /\ \E st \in {AdHocStyle, EmptyDict, MoveStyle} : ConstructStyle(st)
       /\ UNCHANGED <<dispatch, tvars, evars, cvars, fvars, pvars, avars, svars>>
    \/ /\ \E state \in NameInputs, force \in BOOLEAN :
             \E a \in ArgsRead(state, force) :
                TransitionTo(state, a.time, a.style_keys, a.all, a.easing, force)
       /\ UNCHANGED <<dispatch, tvars, evars, cvars, fvars, pvars, avars, svars>>
    \/ /\ \E a \in TransitionArgs :
             TransitionToStyle(AdHocStyle, a.time, a.style_keys, a.all, a.easing)
       /\ UNCHANGED <<dispatch, tvars, evars, cvars, fvars, pvars, avars, svars>>
    \/ Updates

\* One StatedSprite, with no event and no Transition but its own.
InitS ==
    /\ Init
    /\ NoTransitions
    /\ NoEvents
    /\ NoCombined
    /\ NoEasing
    /\ NoProgressBar
    /\ NoAnimation
    /\ NoSlider

Spec == InitS /\ [][Next]_vars

\* The same sprite in a loop that never stops calling update: whatever else
\* is called, another update call follows.
SpecL == InitS /\ [][Next]_vars /\ WF_vars(Updates)

(***************************************************************************)
(* Direct use of class Transition.                                         *)
(***************************************************************************)
StartStyle ==
    [bg |-> <<0, 251, 0>>, text |-> "a",
     rect |-> [val |-> <<1, 2, 6, 6>>, auto |-> NoAuto]]

EndStyle ==
    [bg |-> <<4, 255, 0, 255>>, text |-> "b",
     rect |-> [val |-> <<1, 4, 6, 6>>, auto |-> NoAuto]]

\* Start styles with a radius: one int; a tuple of two.
RadiusStyle1Inputs ==
    { [border_radius |-> IntRadius(2)],
      [bg |-> <<0, 251, 0>>, border_radius |-> Radius(<<2, 4>>)] }

\* End styles with a radius: one int; a tuple of four; a tuple of five.
RadiusStyle2Inputs ==
    { [border_radius |-> IntRadius(6)],
      [bg |-> <<4, 255, 0, 255>>, border_radius |-> Radius(<<8, 6, 4, 2>>)],
      [border_radius |-> Radius(<<8, 6, 4, 2, 0>>)] }

\* Start styles: with a named color; with a transparent color only; with a
\* radius.
Style1Inputs ==
    { StartStyle,
      [bg |-> <<"red">>, text |-> "a"],
      [bg |-> <<0, 0, 0, 0>>] } \cup RadiusStyle1Inputs

\* End styles: with an indexed color; with channels outside 0..255; with a
\* key that no start style but StartStyle has.
Style2Inputs ==
    { EndStyle,
      [bg |-> <<7>>],
      [bg |-> <<300, -50, 255, 255>>],
      [bg |-> <<4, 255, 0, 255>>, text |-> "b"] } \cup RadiusStyle2Inputs

\* The *style_keys tuple: no argument; one list of keys; the one string
\* 'bg', which set() takes for the iterable of its characters; two lists.
KeyArgs ==
    { <<>>, <<{"bg"}>>, <<{"bg", "text", "rect"}>>, <<{"b", "g"}>>,
      <<{"bg"}, {"rect"}>> }

TimeInputs == {-1, 0, MaxTime}

TickDeltas == 0..MaxDelta

ParamInputs ==
    { a \in [time : TimeInputs, style1 : Style1Inputs, style2 : Style2Inputs,
             style_keys : KeyArgs, all : BOOLEAN,
             easing : {"linear", "quadric_in"}, shared : BOOLEAN] :
         /\ a.all => a.style_keys = <<>>
         /\ a.shared => Has(a.style1, "rect")
         /\ a.style1 \in RadiusStyle1Inputs => a.style2 \in RadiusStyle2Inputs
         /\ a.style2 \in RadiusStyle2Inputs
               => /\ a.style1 \in RadiusStyle1Inputs \cup {[bg |-> <<0, 0, 0, 0>>]}
                  /\ a.time = MaxTime
                  /\ a.easing = "linear"
                  /\ a.style_keys \in {<<>>, <<{"bg"}>>} }

InitT ==
    /\ Init
    /\ NoEvents
    /\ NoCombined
    /\ NoEasing
    /\ NoProgressBar
    /\ NoAnimation
    /\ NoSlider
    /\ params \in ParamInputs
    /\ trs = [w \in {"a", "b"} |-> <<>>]
    /\ outs = [w \in {"a", "b"} |-> <<>>]
    /\ dts = <<>>
    /\ tlast = [op |-> "init", who |-> "", dt |-> 0, raised |-> ""]

\* a = Transition(...); b = Transition(...) with the arguments of params.
New ==
    /\ tlast.op = "init"
    /\ LET r == Transition__init__(params.time, params.style1, params.style2,
                                   params.style_keys, params.all, params.easing)
       IN  /\ trs' = [w \in {"a", "b"} |-> r.tr]
           /\ tlast' = [op |-> "new", who |-> "", dt |-> 0,
                        raised |-> r.raised]
    /\ UNCHANGED <<params, outs, dts>>
    /\ UNCHANGED <<vars, evars, cvars, fvars, pvars, avars, svars>>

\* The 'rect' list of style1 is the caller's list: a copy of a dictionary
\* holds the same list, so what one object's tick wrote in it is what the
\* other object, built from the same dictionary, has.
same_list(t, written) ==
    IF Has(t.style1, "rect") /\ Has(written.style1, "rect")
    THEN [t EXCEPT !.style1 = Put(@, "rect", written.style1["rect"]),
                   !.style = Put(@, "rect", written.style1["rect"])]
    ELSE t

\* w.tick(delta_time) for w one of the two objects.  Both are fed the same
\* sequence of delta_time values, dts.
Tick(w, delta_time) ==
    LET o == IF w = "a" THEN "b" ELSE "a"
        n == Len(outs[w])
    IN  /\ trs[w] # <<>>
        /\ n < MaxTicks
        /\ IF n < Len(dts)
           THEN delta_time = dts[n + 1] /\ UNCHANGED dts
           ELSE dts' = Append(dts, delta_time)
        /\ \E done \in DoneSets(trs[w][1]) :
              LET t == tick(trs[w][1], delta_time, done)
              IN  /\ trs' = [trs EXCEPT
                                ![w] = <<t.tr>>,
                                ![o] = IF params.shared
                                       THEN <<same_list(@[1], t.tr)>> ELSE @]
                  /\ outs' = [outs EXCEPT
                                 ![w] = Append(@, [raised |-> t.raised,
                                                   style |-> IF t.raised = ""
                                                             THEN t.tr.style
                                                             ELSE EmptyDict])]
                  /\ tlast' = [op |-> "tick", who |-> w, dt |-> delta_time,
                               raised |-> t.raised]
        /\ UNCHANGED params
        /\ UNCHANGED <<vars, evars, cvars, fvars, pvars, avars, svars>>

NextT ==
    \/ New
    \/ \E w \in {"a", "b"}, delta_time \in TickDeltas : Tick(w, delta_time)

SpecT == InitT /\ [][NextT]_tvars

(***************************************************************************)
(* Events: Sprite.event, Sprite.handle_event and                           *)
(* GenericCombinedSprite.handle_event.  An event is the record of its type *)
(* and of what pygame.mouse.get_pos() returns while it is handled.         *)
(***************************************************************************)
\* The default checks that do not read the mouse buttons.
DEFAULT_EVENT_CHECKS == {"onhover", "onclick", "onrelease"}

\* pygame.Rect.collidepoint
collidepoint(r, pos) ==
    /\ r[1] <= pos[1] /\ pos[1] < r[1] + r[3]
    /\ r[2] <= pos[2] /\ pos[2] < r[2] + r[4]

\* check(sprite, event) for the check of that name; "true" is the check
\* lambda _,__: True that a name outside the defaults gets.
check(name, r, event) ==
    CASE name = "onhover" -> collidepoint(r, event.pos)
      [] name = "onclick" ->
            event.type = "MOUSEBUTTONDOWN" /\ collidepoint(r, event.pos)
      [] name = "onrelease" -> event.type = "MOUSEBUTTONUP"
      [] OTHER -> TRUE

EventNames == {"onhover", "onclick", "f"}

\* The functions the program decorates: each notes its argument, and one
\* onclick function raises when its argument is true.
Funcs(name) == IF name = "onclick" THEN {"note", "raise"} ELSE {"note"}

EventInputs ==
    [type : {"NOEVENT", "MOUSEBUTTONDOWN"},
     pos : {<<1, 1>>, <<3, 3>>, <<5, 6>>}]

\* @sprite.event() on a function of that name: self.Events[name] = wrapper.
\* A name that is already a key keeps its place in the dictionary.
SpriteEvent(c, name, func) ==
    LET e == [name |-> name,
              check |-> IF name \in DEFAULT_EVENT_CHECKS THEN name ELSE "true",
              func |-> func]
        at == {i \in 1..Len(Events[c]) : Events[c][i].name = name}
    IN  /\ at # {} \/ Len(Events[c]) < MaxEvents
        /\ Events' = [Events EXCEPT ![c] =
                         IF at = {} THEN Append(@, e)
                         ELSE [i \in 1..Len(@) |-> IF i \in at THEN e ELSE @[i]]]
        /\ elast' = [op |-> "event", target |-> c, raised |-> "",
                     event |-> [type |-> "NOEVENT", pos |-> <<0, 0>>]]
        /\ UNCHANGED <<sprite_rect, log>>
        /\ UNCHANGED <<vars, tvars, cvars, fvars, pvars, avars, svars>>

wrapper_true(e, c, r, event) ==
    [sprite |-> c, name |-> e.name, arg |-> TRUE, rect |-> r]

\* wrapper(sprite, event): func(check(sprite, event)), as the call it makes.
wrapper(e, c, r, event) ==
    [sprite |-> c, name |-> e.name, arg |-> check(e.check, r, event),
     rect |-> r]

\* Sprite.handle_event(event) of child c, whose rect is r, from the i-th
\* wrapper on: [log, raised], the calls made after those of acc and the
\* exception that ended the loop.
RECURSIVE handle_event(_, _, _, _, _)
handle_event(c, r, event, i, acc) ==
    IF i > Len(Events[c]) THEN [log |-> acc, raised |-> ""]
    ELSE LET call == wrapper(Events[c][i], c, r, event)
         IN  IF Events[c][i].func = "raise" /\ call.arg
             THEN [log |-> Append(acc, call), raised |-> "Exception"]
             ELSE handle_event(c, r, event, i + 1, Append(acc, call))

absolute_same(parent, r) == r

\* pygame.Rect(self.rect.left + sprite.rect.left, self.rect.top +
\* sprite.rect.top, sprite.rect.width, sprite.rect.height)
absolute(parent, r) == <<parent[1] + r[1], parent[2] + r[2], r[3], r[4]>>

\* GenericCombinedSprite.handle_event(event) from the i-th child on:
\* [rects, log, raised].  A child whose handle_event raises keeps the rect
\* it was given for the call.
RECURSIVE combined_handle_event(_, _, _, _)
combined_handle_event(event, i, rects, acc) ==
    IF i > Len(Sprites) THEN [rects |-> rects, log |-> acc, raised |-> ""]
    ELSE LET c == Sprites[i]
             h == handle_event(c, absolute(CombinedRect, rects[c]), event,
                               1, acc)
         IN  IF h.raised # ""
             THEN [rects |-> [rects EXCEPT ![c] = absolute(CombinedRect, @)],
                   log |-> h.log, raised |-> h.raised]
             ELSE combined_handle_event(event, i + 1, rects, h.log)

\* A call of handle_event of child c itself.
SpriteHandleEvent(c, event) ==
    LET h == handle_event(c, sprite_rect[c], event, 1, <<>>)
    IN  /\ log' = h.log
        /\ elast' = [op |-> "handle_event", target |-> c, raised |-> h.raised,
                     event |-> event]
        /\ UNCHANGED <<Events, sprite_rect>>
        /\ UNCHANGED <<vars, tvars, cvars, fvars, pvars, avars, svars>>

\* A call of handle_event of the combined sprite.
CombinedHandleEvent(event) ==
    LET h == combined_handle_event(event, 1, sprite_rect, <<>>)
    IN  /\ \A c \in DOMAIN sprite_rect :
              InBounds(absolute(CombinedRect, sprite_rect[c]))
        /\ sprite_rect' = h.rects
        /\ log' = h.log
        /\ elast' = [op |-> "combined", target |-> "", raised |-> h.raised,
                     event |-> event]
        /\ UNCHANGED Events
        /\ UNCHANGED <<vars, tvars, cvars, fvars, pvars, avars, svars>>

NextE ==
    \/ \E c \in DOMAIN Events, name \in EventNames :
          \E func \in Funcs(name) : SpriteEvent(c, name, func)
    \/ \E c \in DOMAIN Events, event \in EventInputs :
          SpriteHandleEvent(c, event)
    \/ \E event \in EventInputs : CombinedHandleEvent(event)

InitE ==
    /\ Init
    /\ NoTransitions
    /\ NoEvents
    /\ NoCombined
    /\ NoEasing
    /\ NoProgressBar
    /\ NoAnimation
    /\ NoSlider

SpecE == InitE /\ [][NextE]_evars

(***************************************************************************)
(* The StatedSprite as a child of a GenericCombinedSprite of rect          *)
(* CombinedRect, with one event whose function calls construct or          *)
(* transition on the sprite, as the onhover of a Button does.  The         *)
(* handle_event of the combined sprite is followed through its three       *)
(* steps for this child.                                                   *)
(***************************************************************************)
\* rect = sprite.rect.copy(); sprite.rect = pygame.Rect(...): the sprite
\* holds its absolute rect while its events are handled.
DispatchEnter ==
    /\ dispatch = <<>>
    /\ calls < MaxCalls
    /\ InBounds(absolute(CombinedRect, rect))
    /\ dispatch' = << [rect |-> rect, called |-> FALSE] >>
    /\ rect' = absolute(CombinedRect, rect)
    /\ UNCHANGED <<states, selected_state, style_ref, own_style, _transition,
                   rect_owner, image, last, started, calls>>
    /\ UNCHANGED <<tvars, evars, cvars, fvars, pvars, avars, svars>>

\* sprite.handle_event(event): the function of the event makes its call.
DispatchCall ==
    /\ dispatch # <<>>
    /\ ~dispatch[1].called
    /\ \/ \E state \in NameInputs : Construct(state)
       \/ \E state \in NameInputs, force \in BOOLEAN :
             \E a \in ArgsRead(state, force) :
                TransitionTo(state, a.time, a.style_keys, a.all, a.easing, force)
    /\ dispatch' = << [dispatch[1] EXCEPT !.called = TRUE] >>
    /\ UNCHANGED <<tvars, evars, cvars, fvars, pvars, avars, svars>>

\* sprite.rect = rect, the line a call that raised does not reach.
DispatchExit ==
    /\ dispatch # <<>>
    /\ dispatch[1].called
    /\ dispatch' = <<>>
    /\ rect' = IF last.raised = "" THEN dispatch[1].rect ELSE rect
    /\ UNCHANGED <<states, selected_state, style_ref, own_style, _transition,
                   rect_owner, image, last, started, calls>>
    /\ UNCHANGED <<tvars, evars, cvars, fvars, pvars, avars, svars>>

NextH ==
    \/ DispatchEnter
    \/ DispatchCall
    \/ DispatchExit
    \/ dispatch = <<>> /\ Updates

SpecH == InitS /\ [][NextH]_vars

(***************************************************************************)
(* class GenericCombinedStatedSprite (core.py): a dictionary of            *)
(* StatedSprite children with composite states.                            *)
(*                                                                         *)
(* A fragment of a composite style is what the style holds for one child:  *)
(* the name of a state of the child, or a style.                           *)
(***************************************************************************)
Name(n) == [name |-> n, style |-> EmptyDict]

Fragment(st) == [name |-> None, style |-> st]

\* The names the program gives its two children, the states every child
\* has, and the names the source sets as attributes of the container.
ChildNames == {"a", "b", "update", "states", "rect"}

SpriteInputs ==
    { s \in ChildNames \X ChildNames : s[1] # s[2] /\ s[1] \in {"a", "b"} }

ChildStates == [default |-> [bg |-> <<0, 0, 0>>], hover |-> [bg |-> <<4, 4, 4>>]]

InstanceAttributes == {"rect", "states", "selected_state", "style"}

ClassAttributes ==
    {"update", "handle_event", "draw", "change_style", "construct",
     "transition", "keys", "values", "items", "get"}

\* A child after StatedSprite.__init__ and the registration of 'hover'.
NewChild ==
    [selected_state |-> "default", style |-> ChildStates["default"],
     _transition |-> <<>>]

Range(s) == {s[i] : i \in DOMAIN s}

\* The states the program registers in self.states after construction,
\* besides the 'default' that __init__ makes.
CombinedStates(names) ==
    [n \in {"default", "over", "styled", "broken", "empty"} |->
        CASE n = "default" -> [k \in Range(names) |-> Name("default")]
          [] n = "over" ->
                [k \in Range(names) |->
                    IF k = names[1] THEN Name("hover") ELSE Name("default")]
          [] n = "styled" ->
                [k \in {names[1]} |-> Fragment([bg |-> <<2, 2, 2>>])]
          [] n = "broken" ->
                [k \in Range(names) |->
                    IF k = names[1] THEN Name("hover") ELSE Name("ghost")]
          [] n = "empty" -> EmptyDict]

\* self.__setitem__(key, value): super().__getattribute__(key) raises
\* AttributeError for a name that is no attribute, and every attribute the
\* source sets is true.
__setitem__(attrs, key) ==
    IF key \in attrs \cup ClassAttributes THEN "KeyError" ELSE "AttributeError"

\* self.__setattr__(name, value) during __init__: the exception raised, if
\* any; names holds the keys of the dictionary and attrs the attributes
\* set so far.
__setattr__(names, attrs, name) ==
    IF name \in Range(names) THEN __setitem__(attrs, name) ELSE ""

\* GenericCombinedStatedSprite(rect, **sprites), for the keyword names of
\* sprites in their order: the exception raised, if any.  A keyword 'rect'
\* next to the positional rect is refused by the call itself;
\* super().__init__(**sprites) is dict.__init__, which stores every name;
\* then rect, states, selected_state and style are assigned in turn.
GenericCombinedStatedSprite__init__(names) ==
    LET order == <<"rect", "states", "selected_state", "style">>
        before(i) == {order[j] : j \in 1..(i - 1)}
    IN  IF "rect" \in Range(names) THEN "TypeError"
        ELSE IF \E i \in 1..4 : __setattr__(names, before(i), order[i]) # ""
        THEN "AttributeError"
        ELSE ""

\* The container after the constructor call and the registration of the
\* states: the exception the constructor raised, the keys of the
\* dictionary in their order, and the attributes.
NewCombined(names) ==
    LET raised == GenericCombinedStatedSprite__init__(names)
    IN  IF raised # ""
        THEN [raised |-> raised, sprites |-> names, items |-> <<>>,
              states |-> EmptyDict, selected_state |-> None,
              style |-> EmptyDict]
        ELSE [raised |-> "", sprites |-> names, items |-> names,
              states |-> CombinedStates(names),
              selected_state |-> "default",
              style |-> CombinedStates(names)["default"]]

Visit(sprite, method, arg) == [sprite |-> sprite, method |-> method, arg |-> arg]

\* StatedSprite.change_style(fragment) of a child: [raised, child].
child_change_style(c, fragment) ==
    IF fragment.name # None
    THEN IF ~(fragment.name \in DOMAIN ChildStates
              /\ Truthy(ChildStates[fragment.name]))
         THEN [raised |-> "KeyError", child |-> c]
         ELSE [raised |-> "",
               child |-> [c EXCEPT !.selected_state = fragment.name,
                                   !.style = ChildStates[fragment.name]]]
    ELSE [raised |-> "",
          child |-> [c EXCEPT !.selected_state = None,
                              !.style = fragment.style]]

\* The loop of change_style over self.items() from the i-th child on:
\* every child that has a fragment in st gets change_style(st[key]).
RECURSIVE change_style_loop(_, _, _, _, _)
change_style_loop(names, st, i, kids, acc) ==
    IF i > Len(names) THEN [raised |-> "", children |-> kids, visits |-> acc]
    ELSE IF ~Has(st, names[i])
    THEN change_style_loop(names, st, i + 1, kids, acc)
    ELSE LET r == child_change_style(kids[names[i]], st[names[i]])
             seen == Append(acc, Visit(names[i], "change_style", 0))
         IN  IF r.raised # ""
             THEN [raised |-> r.raised, children |-> kids, visits |-> seen]
             ELSE change_style_loop(names, st, i + 1,
                                    [kids EXCEPT ![names[i]] = r.child], seen)

\* The loop 'for sprite in self.values(): sprite.method(arg)'.
values_reversed(names) == [i \in DOMAIN names |-> names[Len(names) + 1 - i]]

values(names) == names

each(names, method, arg) ==
    [i \in DOMAIN values(names) |-> Visit(values(names)[i], method, arg)]

\* An explicit composite style: a style for the first child and the name
\* of a state for the others.
ExplicitStyle(names) ==
    [k \in Range(names) |->
        IF k = names[1] THEN Fragment([bg |-> <<1, 1, 1>>]) ELSE Name("hover")]

\* self.states.get(state) is true.
valid_combined(state) ==
    state \in DOMAIN combined.states /\ Truthy(combined.states[state])

\* GenericCombinedStatedSprite.change_style(state): kind is the type of
\* state, "str", "None" or "dict"; st is the dictionary of kind "dict".
\* [raised, combined, children, visits].
combined_change_style(kind, state, st) ==
    IF kind = "str" /\ ~valid_combined(state)
    THEN [raised |-> "KeyError", combined |-> combined,
          children |-> children, visits |-> <<>>]
    ELSE LET new == IF kind = "str" THEN combined.states[state]
                    ELSE IF kind = "None" THEN EmptyDict ELSE st
             sel == IF kind = "str" THEN state ELSE None
             r == change_style_loop(combined.items, new, 1, children, <<>>)
         IN  [raised |-> r.raised,
              combined |-> [combined EXCEPT !.selected_state = sel,
                                            !.style = new],
              children |-> r.children, visits |-> r.visits]

Kinds == {"str", "None", "dict"}

CombinedNames == {"default", "over", "styled", "broken", "empty", "ghost"}

\* The arguments a call is tried with: a name for kind "str".
Targets(kind) == IF kind = "str" THEN CombinedNames ELSE {""}

StatedChangeStyle(kind, state) ==
    LET r == combined_change_style(kind, state, ExplicitStyle(combined.items))
    IN  /\ clast.op # "init"
        /\ combined.raised = ""
        /\ combined' = r.combined
        /\ children' = r.children
        /\ visits' = r.visits
        /\ clast' = [op |-> "change_style", kind |-> kind, state |-> state,
                     arg |-> 0, raised |-> r.raised]
        /\ UNCHANGED <<vars, tvars, evars, fvars, pvars, avars, svars>>

\* GenericCombinedStatedSprite.construct(style): style[key] of a str and
\* a str key raises TypeError at the first child; type(style) is never
\* CombinedStyle, which is the alias dict[str, dict[str, str | Style]].
StatedConstruct(kind, state) ==
    /\ clast.op # "init"
    /\ combined.raised = ""
    /\ clast' = [op |-> "construct", kind |-> kind, state |-> state,
                 arg |-> 0,
                 raised |-> IF kind = "str" /\ combined.items # <<>>
                            THEN "TypeError" ELSE ""]
    /\ visits' = <<>>
    /\ UNCHANGED <<combined, children>>
    /\ UNCHANGED <<vars, tvars, evars, fvars, pvars, avars, svars>>

\* GenericCombinedStatedSprite.transition(state, time, ...,
\* ignore_scheck=force): after change_style, state[key] of the str state
\* raises TypeError at the first child, before sprite.transition is called.
StatedTransition(kind, state, time, force) ==
    /\ clast.op # "init"
    /\ combined.raised = ""
    /\ IF kind # "str" \/ (~force /\ state = combined.selected_state)
       THEN /\ clast' = [op |-> "transition", kind |-> kind, state |-> state,
                         arg |-> time, raised |-> ""]
            /\ visits' = <<>>
            /\ UNCHANGED <<combined, children>>
       ELSE LET r == combined_change_style(kind, state, EmptyDict)
            IN  /\ combined' = r.combined
                /\ children' = r.children
                /\ visits' = r.visits
                /\ clast' = [op |-> "transition", kind |-> kind,
                             state |-> state, arg |-> time,
                             raised |-> IF r.raised # "" THEN r.raised
                                        ELSE IF combined.items # <<>>
                                        THEN "TypeError" ELSE ""]
    /\ UNCHANGED <<vars, tvars, evars, fvars, pvars, avars, svars>>

\* GenericCombinedSprite.update(delta_time), handle_event(event) and
\* draw(surf).  The children have no Transition and no event, so their
\* update, handle_event and draw change nothing of the model; the rect a
\* child is given during handle_event is the matter of the specification
\* of events.
StatedVisit(method, arg) ==
    /\ clast.op # "init"
    /\ combined.raised = ""
    /\ visits' = each(combined.items, method, arg)
    /\ clast' = [op |-> method, kind |-> "", state |-> "", arg |-> arg,
                 raised |-> ""]
    /\ UNCHANGED <<combined, children>>
    /\ UNCHANGED <<vars, tvars, evars, fvars, pvars, avars, svars>>

\* combined[key] = sprite after construction.
StatedSetItem(key) ==
    /\ clast.op # "init"
    /\ combined.raised = ""
    /\ clast' = [op |-> "__setitem__", kind |-> "", state |-> key,
                 arg |-> 0,
                 raised |-> __setitem__(InstanceAttributes, key)]
    /\ visits' = <<>>
    /\ UNCHANGED <<combined, children>>
    /\ UNCHANGED <<vars, tvars, evars, fvars, pvars, avars, svars>>

\* combined = GenericCombinedStatedSprite(rect, **sprites) with the keyword
\* names the program chose, and the registration of the states.
StatedNew ==
    /\ clast.op = "init"
    /\ combined' = NewCombined(combined.sprites)
    /\ children' = [k \in Range(combined'.items) |-> NewChild]
    /\ visits' = <<>>
    /\ clast' = [op |-> "new", kind |-> "", state |-> "", arg |-> 0,
                 raised |-> combined'.raised]
    /\ UNCHANGED <<vars, tvars, evars, fvars, pvars, avars, svars>>

NextC ==
    \/ StatedNew
    \/ \E kind \in Kinds : \E state \in Targets(kind) :
          StatedChangeStyle(kind, state)
    \/ \E kind \in Kinds : \E state \in Targets(kind) :
          StatedConstruct(kind, state)
    \/ \E kind \in {"str", "dict"}, force \in BOOLEAN :
          \E state \in Targets(kind) :
             StatedTransition(kind, state, MaxTime, force)
    \/ \E delta_time \in DeltaTimes : StatedVisit("update", delta_time)
    \/ \E method \in {"handle_event", "draw"} : StatedVisit(method, 0)
    \/ \E key \in ChildNames : StatedSetItem(key)

InitC ==
    /\ Init
    /\ NoTransitions
    /\ NoEvents
    /\ NoEasing
    /\ NoProgressBar
    /\ NoAnimation
    /\ NoSlider
    /\ \E names \in SpriteInputs :
          combined = [raised |-> "", sprites |-> names, items |-> <<>>,
                      states |-> EmptyDict, selected_state |-> None,
                      style |-> EmptyDict]
    /\ children = EmptyDict
    /\ visits = <<>>
    /\ clast = [op |-> "init", kind |-> "", state |-> "", arg |-> 0, raised |-> ""]

SpecC == InitC /\ [][NextC]_cvars

(***************************************************************************)
(* The easing functions on their own, and a Transition of each.            *)
(***************************************************************************)
\* The durations a Transition is built with here, the delta_time values of
\* its ticks, and the styles it runs between.
EaseTimes == {1, 2, 5}

EaseDeltas == {1, 2, 3}

EaseStart == [bg |-> <<0, 0, 0>>]

EaseEnd == [bg |-> <<200, 100, 50>>]

\* EASING_FUNCTIONS[easing](ct / time), called by the program itself.
Ease(ct, time) ==
    /\ eased' = IF domain_error(easing_name, ct, time)
                THEN [ct |-> ct, time |-> time, raised |-> "ValueError",
                      value |-> <<0, 1>>]
                ELSE [ct |-> ct, time |-> time, raised |-> "",
                      value |-> easing_func(easing_name, ct, time)]
    /\ flast' = [op |-> "ease", dt |-> 0, raised |-> eased'.raised]
    /\ UNCHANGED <<easing_name, ftr>>
    /\ UNCHANGED <<vars, tvars, evars, cvars, pvars, avars, svars>>

\* ftr.tick(delta_time) of the Transition built with the easing, until the
\* tick that sets finished or brings current_time to time.
EaseTick(delta_time) ==
    /\ ftr # <<>>
    /\ ~ftr[1].finished
    /\ ftr[1].current_time < ftr[1].time
    /\ LET t == tick(ftr[1], delta_time, ftr[1].style_keys)
       IN  /\ ftr' = <<t.tr>>
           /\ flast' = [op |-> "tick", dt |-> delta_time, raised |-> t.raised]
    /\ UNCHANGED <<easing_name, eased>>
    /\ UNCHANGED <<vars, tvars, evars, cvars, pvars, avars, svars>>

NextF ==
    \/ \E time \in EaseTimes : \E ct \in 0..time : Ease(ct, time)
    \/ \E delta_time \in EaseDeltas : EaseTick(delta_time)

InitF ==
    /\ Init
    /\ NoTransitions
    /\ NoEvents
    /\ NoCombined
    /\ NoProgressBar
    /\ NoAnimation
    /\ NoSlider
    /\ easing_name \in EASING_FUNCTIONS
    /\ \E time \in EaseTimes :
          ftr = Transition__init__(time, EaseStart, EaseEnd, <<>>, FALSE,
                                   easing_name).tr
    /\ eased = NoValue
    /\ flast = [op |-> "init", dt |-> 0, raised |-> ""]

SpecF == InitF /\ [][NextF]_fvars

(***************************************************************************)
(* class ProgressBar (ui/elements.py), a stated sprite that draws a        *)
(* foreground of the width of its value.                                   *)
(*                                                                         *)
(*   value, max_val, _old_value   the attributes of the same names         *)
(*   fg_rect                      the fg_rect the image was last drawn     *)
(*                                with                                     *)
(*   plast                        the last call made and its outcome       *)
(***************************************************************************)
BarRect == <<0, 0, 8, 2>>

MaxValueInputs == {2, 4}

ValueInputs == 0..6

\* pygame.Rect(0, 0, fg_w, self.rect.h) of _construct, with
\* fg_w = self.rect.w * (self.value / self.max_val); a Rect keeps the whole
\* part of fg_w.
progress_construct(v, max_value) ==
    <<0, 0, (BarRect[3] * v) \div max_value, BarRect[4]>>

\* bar.value = v, by the program.
SetValue(v) ==
    /\ value' = v
    /\ plast' = [op |-> "value", raised |-> ""]
    /\ UNCHANGED <<max_val, _old_value, fg_rect>>
    /\ UNCHANGED <<vars, tvars, evars, cvars, fvars, avars, svars>>

\* ProgressBar.update(delta_time).  The update of the base class handles
\* the events and the Transition, of which the bar has none;
\* construct('default') of the base class ends in self._construct.
ProgressUpdate ==
    /\ IF value # _old_value
       THEN IF value > max_val
            THEN /\ value' = max_val
                 /\ _old_value' = max_val
                 /\ UNCHANGED fg_rect
            ELSE /\ fg_rect' = progress_construct(value, max_val)
                 /\ _old_value' = value
                 /\ UNCHANGED value
       ELSE UNCHANGED <<value, _old_value, fg_rect>>
    /\ plast' = [op |-> "update", raised |-> ""]
    /\ UNCHANGED max_val
    /\ UNCHANGED <<vars, tvars, evars, cvars, fvars, avars, svars>>

NextP ==
    \/ \E v \in ValueInputs : SetValue(v)
    \/ ProgressUpdate

\* ProgressBar(rect, value=v, max_value=m): __init__ of the base class
\* constructs 'default'.
InitP ==
    /\ Init
    /\ NoTransitions
    /\ NoEvents
    /\ NoCombined
    /\ NoEasing
    /\ NoAnimation
    /\ NoSlider
    /\ max_val \in MaxValueInputs
    /\ value \in {0, 1, 2}
    /\ _old_value = value
    /\ fg_rect = progress_construct(value, max_val)
    /\ plast = [op |-> "init", raised |-> ""]

SpecP == InitP /\ [][NextP]_pvars

(***************************************************************************)
(* class Animation (core.py).                                              *)
(*                                                                         *)
(*   frames            the number of frames, len(self.frames)              *)
(*   frame_index, speed, frame_since_last, loop_frames                     *)
(*                     the attributes of the same names                    *)
(*   functions         the keys of self.functions, frame numbers           *)
(*   end_funcs         the number of functions in self.end_funcs           *)
(*   called            the functions the last tick called, in order        *)
(*   alast             the last call made and its outcome                  *)
(***************************************************************************)
FrameInputs == {3, 4}

FunctionInputs == {{}, {1}, {0, 2}}

LoopInputs == {<<0, -1>>, <<1, 2>>}

\* self.functions.get(self.frame): self.frame is the Surface
\* self.frames[self.frame_index], and the keys are frame numbers, so no
\* key is equal to it.
functions_get(keys, index) == {}

\* Animation.tick(step).
AnimationTick(step) ==
    /\ frame_index < 2 * frames
    /\ IF frame_since_last < speed
       THEN /\ frame_since_last' = frame_since_last + 1
            /\ called' = <<>>
            /\ alast' = [op |-> "tick", step |-> step, raised |-> ""]
            /\ UNCHANGED frame_index
       ELSE LET moved == frame_index + step
                looped == loop_frames[2] # -1 /\ moved > loop_frames[2]
                ended == ~looped /\ moved >= frames - 1
                index == IF looped THEN loop_frames[1]
                         ELSE IF ended /\ end_funcs = 0 THEN 0
                         ELSE moved
                ends == IF ended
                        THEN [i \in 1..end_funcs |->
                                 [kind |-> "end_func", frame |-> moved]]
                        ELSE <<>>
            IN  /\ frame_since_last' = 0
                /\ frame_index' = index
                /\ IF index >= frames
                   THEN /\ called' = ends
                        /\ alast' = [op |-> "tick", step |-> step,
                                     raised |-> "IndexError"]
                   ELSE /\ called' =
                              ends \o [i \in 1..Cardinality(
                                                   functions_get(functions, index)) |->
                                          [kind |-> "function", frame |-> index]]
                        /\ alast' = [op |-> "tick", step |-> step,
                                     raised |-> ""]
    /\ UNCHANGED <<frames, speed, loop_frames, functions, end_funcs>>
    /\ UNCHANGED <<vars, tvars, evars, cvars, fvars, pvars, svars>>

\* Animation.reset().
AnimationReset ==
    /\ frame_index' = 0
    /\ frame_since_last' = 0
    /\ called' = <<>>
    /\ alast' = [op |-> "reset", step |-> 0, raised |-> ""]
    /\ UNCHANGED <<frames, speed, loop_frames, functions, end_funcs>>
    /\ UNCHANGED <<vars, tvars, evars, cvars, fvars, pvars, svars>>

NextA ==
    \/ \E step \in {1, 2} : AnimationTick(step)
    \/ AnimationReset

\* Animation(files=..., speed=..., functions=..., end_funcs=...), then the
\* program's choice of loop_frames.
InitA ==
    /\ Init
    /\ NoTransitions
    /\ NoEvents
    /\ NoCombined
    /\ NoEasing
    /\ NoProgressBar
    /\ NoSlider
    /\ frames \in FrameInputs
    /\ frame_index = 0
    /\ speed \in {0, 1}
    /\ frame_since_last = 0
    /\ loop_frames \in LoopInputs
    /\ functions \in FunctionInputs
    /\ end_funcs \in {0, 1}
    /\ called = <<>>
    /\ alast = [op |-> "init", step |-> 0, raised |-> ""]

SpecA == InitA /\ [][NextA]_avars

(***************************************************************************)
(* class Slider (ui/elements.py), horizontal, with the body and the        *)
(* pointer its constructor builds.  The styles of the two children are not *)
(* followed: the functions of the pointer's events change the pointer's    *)
(* state with construct, which leaves its rect and the slider alone.       *)
(***************************************************************************)
_max_val == 100

\* The rect given to Slider(rect).
SliderShapes == {<<1, 1, 6, 2>>, <<1, 1, 8, 4>>, <<1, 1, 4, 4>>}

\* Button(pygame.Rect(0, 0, rect.size[self._dim-1], rect.size[self._dim-1]))
PointerRect(r) == <<0, 0, r[4], r[4]>>

\* The keys of pointer.Events in insertion order: Button.__init__ registers
\* onhover, Slider.__init__ registers onhover again, then the other two.
PointerEvents == <<"onhover", "onleftclick", "onleftrelease">>

\* pygame.Rect.centerx and its assignment.
centerx(r) == r[1] + r[3] \div 2

set_pointer_pos(r, pos) == [r EXCEPT ![1] = pos - r[3] \div 2]

\* The events handed to Slider.handle_event: the type, and what
\* pygame.mouse.get_pos() and pygame.mouse.get_pressed()[0] return then.
SliderEvents ==
    [type : {"MOUSEBUTTONDOWN", "MOUSEBUTTONUP"},
     pos : {<<1, 1>>, <<4, 2>>},
     pressed : BOOLEAN]

\* pygame.mouse.get_pos() during Slider.update.
MousePositions == {<<x, 2>> : x \in 0..(MaxCoord + 2)}

\* The values given to the value setter: those for which the position the
\* setter computes is a whole number.
SliderValues == {0, 25, 50, 75, 100}

\* DEFAULT_EVENT_CHECKS[name](pointer, event), the pointer's rect being r.
pointer_check(name, r, event) ==
    CASE name = "onhover" -> collidepoint(r, event.pos)
      [] name = "onleftclick" ->
            /\ event.type = "MOUSEBUTTONDOWN"
            /\ event.pressed
            /\ collidepoint(r, event.pos)
      [] OTHER -> event.type = "MOUSEBUTTONUP" /\ ~event.pressed

\* pointer.handle_event(event) from the i-th wrapper on, the pointer's rect
\* being r: [clicked, raised].  wrapper calls func(check(sprite, event)),
\* with one argument; a function of two parameters raises TypeError before
\* its body runs.
RECURSIVE pointer_handle_event(_, _, _, _)
pointer_handle_event(event, r, i, clicked) ==
    IF i > Len(PointerEvents) THEN [clicked |-> clicked, raised |-> ""]
    ELSE LET name == PointerEvents[i]
             arg == pointer_check(name, r, event)
         IN  IF handlers[name] # 1
             THEN [clicked |-> clicked, raised |-> "TypeError"]
             ELSE pointer_handle_event(event, r, i + 1,
                     CASE name = "onleftclick" -> clicked \/ arg
                       [] name = "onleftrelease" -> clicked /\ ~arg
                       [] OTHER -> clicked)

\* @slider.pointer.event() on a function of that name with one parameter,
\* whose body is the body of the function Slider.__init__ registered.
PointerEvent(name) ==
    /\ handlers' = [handlers EXCEPT ![name] = 1]
    /\ slast' = [op |-> "event", raised |-> "", moved |-> FALSE]
    /\ UNCHANGED <<slider, pointer_rect, _value, _clicked, callback>>
    /\ UNCHANGED <<vars, tvars, evars, cvars, fvars, pvars, avars>>

\* slider.callback = a function of one parameter.
SetCallback ==
    /\ callback' = "instance"
    /\ slast' = [op |-> "callback", raised |-> "", moved |-> FALSE]
    /\ UNCHANGED <<slider, pointer_rect, _value, _clicked, handlers>>
    /\ UNCHANGED <<vars, tvars, evars, cvars, fvars, pvars, avars>>

\* Slider.handle_event(event), which is GenericCombinedSprite.handle_event:
\* the body has no events; the pointer is handled at its absolute rect and
\* gets its rect back when its handle_event returns.
SliderHandleEvent(event) ==
    LET h == pointer_handle_event(event, absolute(slider, pointer_rect), 1,
                                  _clicked)
    IN  /\ InBounds(absolute(slider, pointer_rect))
        /\ _clicked' = h.clicked
        /\ pointer_rect' = IF h.raised = "" THEN pointer_rect
                           ELSE absolute(slider, pointer_rect)
        /\ slast' = [op |-> "handle_event", raised |-> h.raised,
                     moved |-> FALSE]
        /\ UNCHANGED <<slider, _value, handlers, callback>>
        /\ UNCHANGED <<vars, tvars, evars, cvars, fvars, pvars, avars>>

\* Slider.update(): super().update() has each child handle an empty event
\* at its own rect, then the pointer follows the mouse while it is clicked.
\* The class's callback is declared without self, so that calling it on
\* the instance raises TypeError.
SliderUpdate(mouse) ==
    LET h == pointer_handle_event([type |-> "NOEVENT", pos |-> mouse,
                                   pressed |-> FALSE], pointer_rect, 1,
                                  _clicked)
        rmouse_p == mouse[1] - slider[1]
        offset == pointer_rect[3] \div 2
        pointer_pos == min(slider[3] - offset, max(offset, rmouse_p))
        size == slider[3] - pointer_rect[3]
    IN  IF h.raised # "" \/ ~h.clicked
        THEN /\ _clicked' = h.clicked
             /\ slast' = [op |-> "update", raised |-> h.raised,
                          moved |-> FALSE]
             /\ UNCHANGED <<slider, pointer_rect, _value, handlers, callback>>
             /\ UNCHANGED <<vars, tvars, evars, cvars, fvars, pvars, avars>>
        ELSE /\ pointer_rect' = set_pointer_pos(pointer_rect, pointer_pos)
             /\ _value' = IF size = 0 THEN _value
                          ELSE <<pointer_pos * _max_val, size>>
             /\ slast' = [op |-> "update",
                          raised |-> IF size = 0 THEN "ZeroDivisionError"
                                     ELSE IF callback = "class"
                                          THEN "TypeError" ELSE "",
                          moved |-> TRUE]
             /\ UNCHANGED <<slider, _clicked, handlers, callback>>
             /\ UNCHANGED <<vars, tvars, evars, cvars, fvars, pvars, avars>>

\* slider.value = val
SliderSetValue(val) ==
    LET size == slider[3] - pointer_rect[3]
        offset == pointer_rect[3] \div 2
    IN  /\ pointer_rect' = set_pointer_pos(pointer_rect,
                               offset + (size * val) \div _max_val)
        /\ _value' = <<val, 1>>
        /\ slast' = [op |-> "value", raised |-> "", moved |-> TRUE]
        /\ UNCHANGED <<slider, _clicked, handlers, callback>>
        /\ UNCHANGED <<vars, tvars, evars, cvars, fvars, pvars, avars>>

NextSl ==
    \/ \E i \in 1..Len(PointerEvents) : PointerEvent(PointerEvents[i])
    \/ SetCallback
    \/ \E event \in SliderEvents : SliderHandleEvent(event)
    \/ \E mouse \in MousePositions : SliderUpdate(mouse)
    \/ \E val \in SliderValues : SliderSetValue(val)

\* Slider(rect)
InitSl ==
    /\ Init
    /\ NoTransitions
    /\ NoEvents
    /\ NoCombined
    /\ NoEasing
    /\ NoProgressBar
    /\ NoAnimation
    /\ slider \in SliderShapes
    /\ pointer_rect = PointerRect(slider)
    /\ _value = <<0, 1>>
    /\ _clicked = FALSE
    /\ handlers = [name \in Range(PointerEvents) |-> 2]
    /\ callback = "class"
    /\ slast = [op |-> "init", raised |-> "", moved |-> FALSE]

SpecSl == InitSl /\ [][NextSl]_svars

(***************************************************************************)
(* Properties.                                                             *)
(***************************************************************************)
Active == _transition # <<>>

\* A value as it is compared: a color in RGBA form.
Norm(k, v) == IF k \in ColorKeys THEN to_rgba(v) ELSE v

\* C1: after transition('hover', D, easing='linear') with no keys, followed
\* only by updates whose delta_time values sum to D, the last of those
\* updates returns with selected_state 'hover', no active transition and the
\* hover state's bg rendered.
C1_EndToEnd ==
    [][ ( /\ last'.op = "update"
          /\ Active
          /\ ~_transition[1].finished
          /\ started[1].target = "hover"
          /\ started[1].style_keys = {}
          /\ ~started[1].all
          /\ started[1].only_updates
          /\ _transition[1].easing = "linear"
          /\ _transition[1].current_time + last'.dt = _transition[1].time
          /\ to_rgba(DefaultStyle["bg"]) # to_rgba(HoverStyle["bg"]) )
        => ( /\ selected_state' = "hover"
             /\ _transition' = <<>>
             /\ Has(image', "bg")
             /\ to_rgba(image'["bg"]) = to_rgba(states'["hover"]["bg"]) ) ]_vars

\* C2: transition(name, d) without force, called when name is the selected
\* state, builds no Transition and leaves the active transition, the
\* selected state, the style, the states table, the rect and the image as
\* they were.
C2_NoOp ==
    [][ ( /\ last'.op = "transition"
          /\ ~last'.force
          /\ last'.target = selected_state )
        => ( /\ ~last'.created
             /\ last'.raised = ""
             /\ UNCHANGED <<rect, states, selected_state, style_ref, own_style,
                            _transition, rect_owner, image>> ) ]_vars

\* A no-op call has returned while a transition was partly elapsed.
C2_Witness ==
    /\ last.op = "transition"
    /\ ~last.force
    /\ last.target = selected_state
    /\ ~last.created
    /\ Active
    /\ _transition[1].current_time > 0
    /\ ~_transition[1].finished

\* C3: construct called while a transition is active returns with no active
\* transition.
C3_ConstructCancels ==
    [][ ( /\ last'.op = "construct"
          /\ last'.raised = ""
          /\ Active )
        => _transition' = <<>> ]_vars

\* C4: when update retires a finished transition, every key of the target
\* style has the target's value in the rendered style.
C4_FinalSnap ==
    [][ ( /\ last'.op = "update"
          /\ Active
          /\ _transition' = <<>> )
        => \A k \in (DOMAIN _transition[1].style2) \ {"check_rect_auto"} :
              /\ Has(image', k)
              /\ Norm(k, image'[k]) = Norm(k, _transition[1].style2[k]) ]_vars

\* C5: an update whose delta_time is at least the remaining duration ticks
\* the transition and retires it in that same call.
C5_SingleUpdate ==
    [][ ( /\ last'.op = "update"
          /\ last'.raised = ""
          /\ Active
          /\ ~_transition[1].finished
          /\ last'.dt >= _transition[1].time - _transition[1].current_time )
        => _transition' = <<>> ]_vars

C7_ConstructSelects ==
    [][ /\ ( /\ last'.op = "construct"
             /\ last'.target \in DOMAIN states )
           => ( /\ last'.raised = ""
                /\ selected_state' = last'.target
                /\ image' = states'[last'.target] )
        /\ ( /\ last'.op = "construct"
             /\ last'.target = "<style>" )
           => ( selected_state' = None /\ image' = AdHocStyle )
        /\ ( /\ last'.op = "construct"
             /\ last'.target = "<nothing>" )
           => ( selected_state' = None /\ image' = EmptyDict ) ]_vars

\* C8: the start style of every Transition that transition builds is the
\* style the sprite last rendered.
C8_StartStyle ==
    [][ ( /\ last'.op = "transition"
          /\ last'.created )
        => \A k \in (DOMAIN image) \ {"rect", "check_rect_auto"} :
              /\ Has(_transition'[1].style1, k)
              /\ Norm(k, _transition'[1].style1[k]) = Norm(k, image[k]) ]_vars

\* C9: construct and transition with a name that is not in the states
\* table raise KeyError and leave the selected state, the style, the states
\* table, the active transition, the rect and the image as they were.
C9_UnknownState ==
    [][ ( /\ last'.op \in {"construct", "transition"}
          /\ last'.target \in NameInputs \ DOMAIN states )
        => ( /\ last'.raised = "KeyError"
             /\ UNCHANGED <<rect, states, selected_state, style_ref, own_style,
                            _transition, rect_owner, image>> ) ]_vars

\* A call with an unregistered name has failed while a transition was
\* active and another state than 'default' selected.
C9_Witness ==
    /\ last.op \in {"construct", "transition"}
    /\ last.target = "ghost"
    /\ last.raised = "KeyError"
    /\ Active
    /\ selected_state = "hover"

\* C10: a transition call that reaches the Transition constructor with an
\* easing name outside EASING_FUNCTIONS raises KeyError there and leaves no
\* Transition; no Transition ever holds such a name, and no update fails on
\* the easing function.
C10_UnknownEasing ==
    [][ /\ ( /\ last'.op = "transition"
             /\ last'.easing \notin EASING_FUNCTIONS
             /\ ~(~last'.force /\ last'.target = selected_state)
             /\ last'.target \in DOMAIN states => Truthy(states[last'.target])
             /\ last'.target # "ghost" )
           => ( /\ last'.raised = "KeyError"
                /\ ~last'.created
                /\ _transition' = <<>> )
        /\ _transition' # <<>> => _transition'[1].easing \in EASING_FUNCTIONS
        /\ last'.op = "update" => last'.raised # "TypeError" ]_vars

\* A transition call with the easing name 'bounce' has failed.
C10_Witness ==
    /\ last.op = "transition"
    /\ last.easing = "bounce"
    /\ last.raised = "KeyError"
    /\ ~Active

\* C15: a transition call toward a registered state whose rect has 'auto'
\* fields builds a Transition whose end rect has each 'auto' field replaced
\* by the sprite's rect field at the call and every other field as
\* registered, with no 'auto' left; no update changes the end style of the
\* active Transition, whatever happens to the sprite's rect.
C15_RectResolvedOnce ==
    [][ /\ ( /\ last'.op = "transition"
             /\ last'.created
             /\ last'.target \in DOMAIN states
             /\ Has(states[last'.target], "rect")
             /\ HasAuto(states[last'.target]["rect"]) )
           => ( /\ Has(_transition'[1].style2, "rect")
                /\ _transition'[1].style2["rect"].auto = NoAuto
                /\ \A i \in 1..4 :
                      _transition'[1].style2["rect"].val[i] =
                         IF states[last'.target]["rect"].auto[i] THEN rect[i]
                         ELSE states[last'.target]["rect"].val[i] )
        /\ ( /\ last'.op \in {"update", "construct"}
             /\ Active
             /\ _transition' # <<>> )
           => _transition'[1].style2 = _transition[1].style2 ]_vars

\* A transition toward 'hover' resolved the 'auto' fields, ticks moved the
\* sprite, then construct(rect=...) moved it elsewhere: the end rect of the
\* active Transition is still the one resolved at the start.
C15_Witness ==
    /\ last.op = "construct"
    /\ last.target = "<rect>"
    /\ Active
    /\ started[1].target = "hover"
    /\ "rect" \in _transition[1].style_keys
    /\ _transition[1].current_time > 0
    /\ ~_transition[1].finished
    /\ _transition[1].style2["rect"] = [val |-> <<1, 4, 6, 6>>, auto |-> NoAuto]
    /\ rect = <<3, 2, 6, 6>>

\* C16: the key set of the Transition that a transition call builds is the
\* union of the keys of the start and the end style when _all is given,
\* else the given keys (those of them the end style has) when keys are
\* given, else all the keys of the end style.
C16_KeySelection ==
    [][ ( /\ last'.op = "transition"
          /\ last'.created )
        => _transition'[1].style_keys =
              IF started'[1].all
              THEN { k \in (DOMAIN _transition'[1].style1)
                              \cup (DOMAIN _transition'[1].style2) :
                        Has(_transition'[1].style2, k) }
              ELSE IF started'[1].style_keys # {}
              THEN started'[1].style_keys \cap DOMAIN _transition'[1].style2
              ELSE DOMAIN _transition'[1].style2 ]_vars

\* The Transition that the constructor call of params builds.
Built == Transition__init__(params.time, params.style1, params.style2,
                            params.style_keys, params.all, params.easing)

\* The keys the arguments of params select, by the rule of C16, among the
\* keys of the end style.
Selected ==
    ( IF params.all THEN (DOMAIN params.style1) \cup (DOMAIN params.style2)
      ELSE IF params.style_keys = <<>> THEN DOMAIN params.style2
      ELSE params.style_keys[1] ) \cap DOMAIN params.style2

\* C11: a constructor call with a duration that is not strictly positive
\* raises, and no tick raises ZeroDivisionError.
C11_PositiveDuration ==
    /\ (tlast.op = "new" /\ params.time <= 0) => tlast.raised # ""
    /\ tlast.raised # "ZeroDivisionError"

\* C12: a constructor call in which a selected color key has a named or
\* indexed color in the start or in the end style raises
\* IncorrectColorError and builds nothing.
C12_SymbolicColor ==
    ( /\ tlast.op = "new"
      /\ Len(params.style_keys) <= 1
      /\ \E k \in Selected \cap ColorKeys :
            \/ symbolic(params.style2[k])
            \/ Has(params.style1, k) /\ symbolic(params.style1[k]) )
    => ( /\ tlast.raised = "IncorrectColorError"
         /\ \A w \in {"a", "b"} : trs[w] = <<>> )

\* The call has raised IncorrectColorError for a color that is symbolic in
\* the start style only.
C12_Witness ==
    /\ tlast.op = "new"
    /\ tlast.raised = "IncorrectColorError"
    /\ "bg" \in Selected
    /\ symbolic(params.style1["bg"])
    /\ ~symbolic(params.style2["bg"])

\* C13: a constructor call that returns has built a Transition in which
\* every channel of every selected color, in the start and in the end
\* style, is in 0..255.
C13_ChannelRange ==
    (tlast.op = "new" /\ tlast.raised = "")
    => \A k \in trs["a"][1].style_keys \cap ColorKeys : \A i \in 1..4 :
          /\ trs["a"][1].style1[k][i] \in 0..255
          /\ trs["a"][1].style2[k][i] \in 0..255

\* C14: the two objects, built by the same call and fed the same
\* delta_time values, have returned the same style from their i-th tick,
\* for every i both have reached.
C14_Determinism ==
    \A i \in 1..min(Len(outs["a"]), Len(outs["b"])) :
       outs["a"][i] = outs["b"][i]

\* C17: after a tick that returns, of an object with a positive duration
\* that shares no list with the other, every selected interpolable key of the
\* object holds round(start + (end - start) * progress), colors clamped to
\* 0..255, where start is the value the constructor stored and progress is
\* easing(current_time / time).
C17_Interpolation ==
    ( /\ tlast.op = "tick"
      /\ tlast.raised = ""
      /\ params.time > 0
      /\ ~params.shared )
    => LET t == trs[tlast.who][1]
       IN  \A k \in t.style_keys \cap InterpolatedKeys :
              t.style[k] = tick_value(k, Built.tr[1].style1[k],
                                      Built.tr[1].style2[k],
                                      easing_func(t.easing, t.current_time,
                                                  t.time))

\* C18: every tick leaves finished true if it was true or if current_time
\* has reached time, and false otherwise.
C18_Finished ==
    [][ tlast'.op = "tick"
        => ( trs'[tlast'.who][1].finished
             <=> ( \/ trs[tlast'.who][1].finished
                   \/ trs'[tlast'.who][1].current_time
                         >= trs'[tlast'.who][1].time ) ) ]_tvars

\* The calls of log made for sprite c.
CallsOf(c) == SelectSeq(log, LAMBDA e : e.sprite = c)

C20_ChildRect ==
    [][ elast'.op = "combined"
        => /\ \A i \in 1..Len(log') :
                 LET c == log'[i].sprite
                     r == <<CombinedRect[1] + sprite_rect[c][1],
                            CombinedRect[2] + sprite_rect[c][2],
                            sprite_rect[c][3], sprite_rect[c][4]>>
                     e == CHOOSE e \in {Events[c][j] : j \in 1..Len(Events[c])} :
                             e.name = log'[i].name
                 IN  /\ log'[i].rect = r
                     /\ log'[i].arg = check(e.check, r, elast'.event)
           /\ elast'.raised = "" => sprite_rect' = sprite_rect ]_evars

\* handle_event of the combined sprite has returned after a child's
\* onhover function got True for a pointer that is inside the child's rect
\* only once the rect is moved by the origin; the rects are as registered.
C20_Witness ==
    /\ elast.op = "combined"
    /\ elast.raised = ""
    /\ sprite_rect = ChildRects
    /\ \E i \in 1..Len(log) :
          /\ log[i].name = "onhover"
          /\ log[i].arg
          /\ ~collidepoint(sprite_rect[log[i].sprite], elast.event.pos)

\* The fragment of child k in the composite style st, and what a child
\* constructed from a fragment is: the state of that name selected, or the
\* fragment's style as its style.
ConstructedFrom(c, fragment) ==
    IF fragment.name # None THEN c.selected_state = fragment.name
    ELSE c.style = fragment.style

\* C21: a construct call of the container with the name of a registered
\* composite state returns and leaves every child with the state selected
\* that the composite state names for it; a construct call with an explicit
\* composite style leaves every child constructed from its fragment.
C21_ConstructFansOut ==
    /\ ( /\ clast.op = "construct"
         /\ clast.kind = "str"
         /\ valid_combined(clast.state)
         /\ \A k \in DOMAIN combined.states[clast.state] :
               combined.states[clast.state][k].name \in DOMAIN ChildStates )
       => /\ clast.raised = ""
          /\ \A k \in DOMAIN combined.states[clast.state] :
                ConstructedFrom(children[k], combined.states[clast.state][k])
    /\ ( clast.op = "construct" /\ clast.kind = "dict" )
       => /\ clast.raised = ""
          /\ \A k \in DOMAIN children :
                ConstructedFrom(children[k], ExplicitStyle(combined.items)[k])

\* C22: a transition call of the container with the name of a registered
\* composite state that is not the selected one returns, and leaves every
\* child with a Transition of the duration of the call that is not finished.
C22_TransitionFansOut ==
    [][ ( /\ clast'.op = "transition"
          /\ clast'.kind = "str"
          /\ valid_combined(clast'.state)
          /\ clast'.state # combined.selected_state
          /\ \A k \in DOMAIN combined.states[clast'.state] :
                combined.states[clast'.state][k].name \in DOMAIN ChildStates )
        => /\ clast'.raised = ""
           /\ \A k \in DOMAIN children' :
                 /\ children'[k]._transition # <<>>
                 /\ children'[k]._transition[1].time = clast'.arg
                 /\ ~children'[k]._transition[1].finished ]_cvars

\* C23: once the constructor of the container was called with a keyword
\* name that is the name of an attribute of the container, it has raised:
\* no child is stored under such a name.
C23_ReservedNames ==
    ( /\ clast.op # "init"
      /\ Range(combined.sprites) \cap (InstanceAttributes \cup ClassAttributes)
            # {} )
    => combined.raised # ""

\* C24: update(delta_time), handle_event(event) and draw(surf) of the
\* container call the method of the same name of every child once, in the
\* order in which the children were given to the constructor, update with
\* the same delta_time.
C24_ChildOrder ==
    clast.op \in {"update", "handle_event", "draw"}
    => /\ Len(visits) = Len(combined.sprites)
       /\ \A i \in DOMAIN visits :
             visits[i] = Visit(combined.sprites[i], clast.op, clast.arg)

C24_Witness ==
    /\ clast.op = "update"
    /\ clast.arg = MaxDelta
    /\ visits = <<Visit("b", "update", MaxDelta), Visit("a", "update", MaxDelta)>>

\* The tolerance of the end values of an easing function, and whether the
\* rational v is within it of the whole number n.
Tolerance == <<1, 500>>

Near(v, n) ==
    LET diff == v[1] - n * v[2]
        abs(x) == IF x < 0 THEN -x ELSE x
    IN  abs(diff) * Tolerance[2] <= abs(v[2]) * Tolerance[1]

\* C25: every function of EASING_FUNCTIONS returns 0 at 0 and 1 at 1,
\* within the tolerance.
C25_Endpoints ==
    eased.ct >= 0
    => /\ eased.ct = 0 => (eased.raised = "" /\ Near(eased.value, 0))
       /\ eased.ct = eased.time => (eased.raised = "" /\ Near(eased.value, 1))

\* C26: no tick of a Transition with a positive duration and positive
\* delta_time values raises, up to and including the tick that sets
\* finished, whatever its easing function.
C26_NoDomainError ==
    flast.op = "tick" => flast.raised = ""

\* C27: when update returns, the foreground the bar was last drawn with is
\* the one of its value.
C27_Reconstructs ==
    plast.op = "update" => fg_rect = progress_construct(value, max_val)

\* C28: a tick that moves the animation to a frame whose number is a key of
\* functions calls the function of that frame.
C28_FrameFunction ==
    [][ ( /\ alast'.op = "tick"
          /\ alast'.raised = ""
          /\ frame_index' # frame_index
          /\ frame_index' \in functions )
        => \E i \in DOMAIN called' :
              called'[i] = [kind |-> "function", frame |-> frame_index'] ]_avars

\* C29: an update, whose only step that could write a style is the tick of
\* the Transition, leaves the states table of the sprite as it was.
C29_TickIsLocal ==
    [][ last'.op = "update" => states' = states ]_vars

\* C30: once a Transition is built, every selected radius key holds exactly
\* 4 components in its start style and in its end style, and no tick fails
\* for want of a component.
C30_RadiusFour ==
    (tlast.op # "init" /\ trs["a"] # <<>>)
    => /\ \A k \in trs["a"][1].style_keys \cap RadiusKeys :
             /\ Len(trs["a"][1].style1[k].val) = 4
             /\ Len(trs["a"][1].style2[k].val) = 4
       /\ tlast.raised # "IndexError"

\* C31: in every style a tick returned, each channel of every selected
\* color key is an integer in 0..255, whatever the easing and however far
\* the progress is from the interval 0..1.
C31_Clamped ==
    /\ (flast.op = "tick" /\ flast.raised = "")
       => \A k \in ftr[1].style_keys \cap ColorKeys : \A i \in 1..4 :
             ftr[1].style[k][i] \in 0..255
    /\ \A w \in {"a", "b"} : \A n \in 1..Len(outs[w]) :
          outs[w][n].raised = ""
          => \A k \in trs[w][1].style_keys \cap ColorKeys : \A i \in 1..4 :
                outs[w][n].style[k][i] \in 0..255

\* A tick past the end of the duration has returned a channel held at 255.
C31_Witness ==
    /\ flast.op = "tick"
    /\ flast.raised = ""
    /\ ftr[1].current_time > ftr[1].time
    /\ ftr[1].style["bg"][1] = 255

\* C32: a transition call that fails in the Transition constructor, on an
\* unknown easing name or a symbolic color, leaves selected_state, the
\* active Transition and the states table as they were before the call.
C32_FailureRestores ==
    [][ ( /\ last'.op = "transition"
          /\ last'.raised \in {"KeyError", "IncorrectColorError"}
          /\ last'.easing \notin EASING_FUNCTIONS )
        => ( /\ selected_state' = selected_state
             /\ _transition' = _transition
             /\ states' = states ) ]_vars

\* The states table as it was registered.
Registered ==
    [n \in StateNames |->
        IF n = "default" THEN DefaultStyle
        ELSE IF n = "hover" THEN HoverStyle
        ELSE EmptyDict]

\* C33: after any sequence of construct, transition and update calls every
\* registered style, the 'auto' markers of its rect included, is what it
\* was at registration.
C33_StatesKept ==
    states = Registered

\* C34: construct and transition accept every name that is a key of the
\* states table, a state with an empty style included: such a call does not
\* fail with the unknown-state KeyError.
C34_EmptyStateAccepted ==
    [][ ( /\ last'.op \in {"construct", "transition"}
          /\ last'.target \in DOMAIN states
          /\ last'.op = "transition" => last'.easing \in EASING_FUNCTIONS )
        => last'.raised # "KeyError" ]_vars

\* C35: once a transition call has built a Transition, update calls that
\* follow one another with no other call between them lead to a state with
\* no active Transition; and a sprite with no active Transition gets one
\* from a transition call only.
C35_Retires ==
    /\ (Active /\ started # <<>> /\ started[1].only_updates)
          ~> (~Active \/ started = <<>> \/ ~started[1].only_updates)
    /\ [][ (~Active /\ Active') => last'.op = "transition" ]_vars

\* C36: a handle_event call of the combined sprite leaves every child with
\* the rect it had before the call, relative to the combined sprite, whether
\* the call returns or a function of a child raises.
C36_RectRestored ==
    [][ elast'.op = "combined" => sprite_rect' = sprite_rect ]_evars

\* C37: a transition call made by a function of the sprite's event while
\* the combined sprite handles an event builds a Transition whose start
\* rect is the sprite's rect relative to the combined sprite, and whose end
\* rect has that rect's fields where the target's rect says 'auto'.
C37_NoOffset ==
    [][ ( /\ dispatch # <<>>
          /\ ~dispatch[1].called
          /\ last'.op = "transition"
          /\ last'.created )
        => LET t == _transition'[1]
               target == states[last'.target]
           IN  /\ t.style1["rect"].val = dispatch[1].rect
               /\ Has(target, "rect")
                  => \A i \in 1..4 :
                        target["rect"].auto[i]
                        => t.style2["rect"].val[i] = dispatch[1].rect[i] ]_vars

\* C38: after any sequence of tick and reset calls on an animation that has
\* frames, frame_index is the index of one of them, with or without end
\* functions.
C38_FrameIndex ==
    frames > 0 => frame_index \in 0..(frames - 1)

\* C39: after every Slider.update that moved the dragged pointer the value
\* lies between 0 and the max value, it is 0 with the pointer at its minimum
\* position and the max value with the pointer at its maximum position; and
\* after value = v the formula of update, applied to the position the
\* setter gave the pointer, yields v again.
C39_SliderValue ==
    LET offset == pointer_rect[3] \div 2
        size == slider[3] - pointer_rect[3]
    IN  /\ (slast.op = "update" /\ slast.moved /\ size # 0) =>
              /\ 0 <= _value[1]
              /\ _value[1] <= _max_val * _value[2]
              /\ centerx(pointer_rect) = offset => _value[1] = 0
              /\ centerx(pointer_rect) = slider[3] - offset
                    => _value[1] = _max_val * _value[2]
        /\ (slast.op = "value" /\ size # 0) =>
              centerx(pointer_rect) * _max_val = _value[1] * size

====
